---- MODULE Spec2Model ----
(***************************************************************************)
(* Model of the synthehol monitor: the escalation state machine of         *)
(* src/src/monitor.rs (Monitor::run and the helpers it calls), the loop of *)
(* Monitor::start, and the sqlite tables the monitor saves its state to.   *)
(* level_index is 0-based as in the source; TLA+ sequences are 1-based, so *)
(* levels[level_index] of the source is levels[level_index + 1] here.      *)
(***************************************************************************)
EXTENDS Integers, Sequences, FiniteSets, TLC

\* Bounds of the model.
MaxRuns == 5
MaxRestarts == 1

\* Rows the results table holds when the history specification starts, and
\* the number of cycles it then records.
HistSeed == 497
MaxInserts == 6

\* Files in the configuration directory.
MaxFiles == 2

\* The timed loop: the longest interval, the longest cycle (both in the
\* same unit of time) and the number of cycles of one run of the loop.
MaxInterval == 2
MaxDuration == 3
MaxStarts == 3

\* The stepwise monitor: cycles begun in all, and crashes of the process.
MaxCycles == 3
MaxCrashes == 1

\* Overlays applied one after another to the empty configuration.
MaxOverlays == 2

\* Processes that open the store one after another, and rows of history.
MaxOpens == 2

MaxRows == 2

\* `DESC LIMIT 500` of Monitor::prune_results.
PruneKeep == 500

\* The monitor's name, the key of its rows in the store.
MonName == "web"

VARIABLES
    levels,         \* Monitor.levels: Vec<Level>
    reporters,      \* Monitor.reporters: HashMap, lowercase name -> reporter state
    level_index,    \* Monitor.level_index: usize
    failure_tally,  \* Monitor.failure_tally: u64
    success_tally,  \* Monitor.success_tally: u64
    running,        \* Monitor.running: bool
    pc,             \* position of the monitor task in Monitor::start
    monitor_state,  \* sqlite table monitor_state (name UNIQUE)
    reporter_state, \* sqlite table reporter_state (UNIQUE (name, monitor_name))
    results,        \* sqlite table results, ordered by id
    cycle,          \* what the last call of Monitor::run did (observation)
    completed,      \* triple at the end of the last completed cycle of this process
    prev,           \* triple the previous process held when it stopped
    fail_hist,      \* state before each of the latest consecutive failed runs
    restarts,       \* number of process restarts so far
    tasks,          \* the spawned monitor tasks: position in start/run, timer
    token,          \* the CancellationToken of main: cancelled or not
    main_pc,        \* position of main after it has spawned the tasks
    timing,         \* one monitor loop with its clock, deadline and durations
    db_last,        \* the last SynthDb operation and what it returned
    conf,           \* parse_config: the directory, its listing, the result
    pd              \* a PagerdutyReporter: its dedup key, snapshots, last event

\* The variables of one monitor and its store.
monVars == <<levels, reporters, level_index, failure_tally, success_tally, running,
             pc, monitor_state, reporter_state, results, cycle, completed, prev,
             fail_hist, restarts>>

\* The variables of the other components.
otherVars == <<tasks, token, main_pc, timing, db_last, conf, pd>>

vars == <<levels, reporters, level_index, failure_tally, success_tally, running,
          pc, monitor_state, reporter_state, results, cycle, completed, prev,
          fail_hist, restarts, tasks, token, main_pc, timing, db_last, conf,
          pd>>

----------------------------------------------------------------------------
\* Level::from_args: errors_to_escalate and successes_to_clear default to 1.
DefaultThreshold == 1

Lvl(n, e, s, r) ==
    [name |-> n, errors_to_escalate |-> e, successes_to_clear |-> s, reporters |-> r]

\* The level lists a configuration file can give a monitor.
CfgOne == << Lvl("base", DefaultThreshold, DefaultThreshold, <<"slack">>) >>

CfgTwo == << Lvl("base", 2, 2, <<"splunk">>),
             Lvl("page", 1, 2, <<"Slack", "pagerduty">>) >>

CfgThree == << Lvl("info", 2, 1, <<>>),
               Lvl("warn", 2, 1, <<"slack">>),
               Lvl("crit", 2, 2, <<"slack", "splunk">>) >>

CfgFast == << Lvl("info", 1, 1, <<"slack">>),
              Lvl("warn", 1, 1, <<"splunk">>),
              Lvl("crit", 1, 1, <<"slack">>) >>

Configs == {CfgOne, CfgTwo, CfgThree, CfgFast}

\* The reporters main registers: slack and splunk, each if configured.
Registrations == { {}, {"slack"}, {"slack", "splunk"} }

\* What the target does in a cycle: it cannot be launched, it exits with
\* status 0, or it exits with another status.
Outcomes == {"launch_err", "exit0", "exit1"}

\* Execute with a launch failure turned into a failed run (status -1).
Execute_LaunchErrAsFailure(o) ==
    [ok |-> TRUE, status |-> IF o = "exit0" THEN 0 ELSE IF o = "exit1" THEN 1 ELSE -1]

\* Monitor::execute: Err when Target::run fails, else the result with the
\* exit status.
Execute(o) ==
    IF o = "launch_err" THEN [ok |-> FALSE, status |-> 0]
    ELSE [ok |-> TRUE, status |-> IF o = "exit0" THEN 0 ELSE 1]

\* String::to_lowercase on the names used here.
ToLower(s) == IF s = "Slack" THEN "slack" ELSE s

\* rusqlite binds the parameters of a statement and fails with
\* InvalidParameterCount unless their number equals that of the placeholders.
ExecuteOk(placeholders, params) == Len(params) = placeholders

Triple(li, ft, st) == [level_index |-> li, failure_tally |-> ft, success_tally |-> st]

Mon == Triple(level_index, failure_tally, success_tally)

Zero == Triple(0, 0, 0)

NoCycle == [outcome |-> "none", pre |-> Zero, sent |-> <<>>, inserted |-> 0,
            level_name |-> "", saved |-> FALSE]

----------------------------------------------------------------------------
\* incr_failure that leaves success_tally as it is.
IncrFailure_KeepSuccess(m) == [m EXCEPT !.failure_tally = @ + 1]

\* Monitor::incr_failure
IncrFailure(m) == [m EXCEPT !.success_tally = 0, !.failure_tally = @ + 1]

\* incr_success without the pin at baseline.
IncrSuccess_NoPin(m) == [m EXCEPT !.failure_tally = 0, !.success_tally = @ + 1]

\* incr_success that leaves failure_tally as it is.
IncrSuccess_KeepFailure(m) ==
    IF m.level_index = 0
    THEN [m EXCEPT !.success_tally = 1]
    ELSE [m EXCEPT !.success_tally = @ + 1]

\* Monitor::incr_success
IncrSuccess(m) ==
    IF m.level_index = 0
    THEN [m EXCEPT !.failure_tally = 0, !.success_tally = 1]
    ELSE [m EXCEPT !.failure_tally = 0, !.success_tally = @ + 1]

\* escalate that wraps around at the last tier instead of staying there.
Escalate_Wrap(m) == [m EXCEPT !.level_index = (@ + 1) % Len(levels)]

\* Monitor::escalate
Escalate(m) ==
    IF m.level_index + 1 < Len(levels)
    THEN [m EXCEPT !.level_index = @ + 1]
    ELSE m

\* reset_level that goes down one tier.
ResetLevel_StepDown(m) ==
    [m EXCEPT !.level_index = IF @ > 0 THEN @ - 1 ELSE 0]

\* Monitor::reset_level
ResetLevel(m) == [m EXCEPT !.level_index = 0]

\* self.levels[i] panics unless i < self.levels.len()
InRange(i) == i < Len(levels)

LevelAt(i) == levels[i + 1]

\* The loop of report / clear looking the names up as they are written.
Notify_CaseSensitive(op, i) ==
    LET names == LevelAt(i).reporters
        all == [k \in 1..Len(names) |->
                   [op |-> op, rep |-> names[k], tier |-> i]]
    IN SelectSeq(all, LAMBDA d : d.rep \in DOMAIN reporters)

\* The loop of Monitor::report and Monitor::clear: every name of the level's
\* list, lowercased, that has a registered reporter, in list order.
Notify(op, i) ==
    LET names == LevelAt(i).reporters
        all == [k \in 1..Len(names) |->
                   [op |-> op, rep |-> ToLower(names[k]), tier |-> i]]
    IN SelectSeq(all, LAMBDA d : d.rep \in DOMAIN reporters)

\* Monitor::report
Report(m) == Notify("report", m.level_index)

\* Monitor::clear
Clear(m) == Notify("clear", m.level_index)

\* The tally update of the Ok(r) branch, which precedes the first
\* self.levels[self.level_index].
Tallied(m, status) == IF status # 0 THEN IncrFailure(m) ELSE IncrSuccess(m)

\* The Ok(r) branch with reset_level called before clear.
RunOk_ResetBeforeClear(m, status) ==
    LET m1 == Tallied(m, status)
        l == LevelAt(m1.level_index)
        esc == status # 0 /\ l.errors_to_escalate <= m1.failure_tally
        clr == status = 0 /\ l.successes_to_clear <= m1.success_tally
        m2 == IF esc THEN Escalate(m1) ELSE IF clr THEN ResetLevel(m1) ELSE m1
        cleared == IF clr THEN Clear(m2) ELSE <<>>
    IN [m |-> m2,
        sent |-> cleared \o Report(m2),
        level_name |-> LevelAt(m2.level_index).name]

\* The Ok(r) branch with report called before the escalation is applied.
RunOk_ReportBeforeEscalate(m, status) ==
    LET m1 == Tallied(m, status)
        l == LevelAt(m1.level_index)
        esc == status # 0 /\ l.errors_to_escalate <= m1.failure_tally
        clr == status = 0 /\ l.successes_to_clear <= m1.success_tally
        m2 == IF esc THEN Escalate(m1) ELSE IF clr THEN ResetLevel(m1) ELSE m1
        cleared == IF clr THEN Clear(m1) ELSE <<>>
    IN [m |-> m2,
        sent |-> cleared \o (IF esc THEN Report(m1) ELSE Report(m2)),
        level_name |-> LevelAt(m2.level_index).name]

\* The Ok(r) branch with r.level_name taken before the transition.
RunOk_NameBeforeTransition(m, status) ==
    LET m1 == Tallied(m, status)
        l == LevelAt(m1.level_index)
        esc == status # 0 /\ l.errors_to_escalate <= m1.failure_tally
        clr == status = 0 /\ l.successes_to_clear <= m1.success_tally
        m2 == IF esc THEN Escalate(m1) ELSE IF clr THEN ResetLevel(m1) ELSE m1
        cleared == IF clr THEN Clear(m1) ELSE <<>>
    IN [m |-> m2,
        sent |-> cleared \o Report(m2),
        level_name |-> LevelAt(m.level_index).name]

\* The Ok(r) branch with report called only after a failed run.
RunOk_ReportOnFailureOnly(m, status) ==
    LET m1 == Tallied(m, status)
        l == LevelAt(m1.level_index)
        esc == status # 0 /\ l.errors_to_escalate <= m1.failure_tally
        clr == status = 0 /\ l.successes_to_clear <= m1.success_tally
        m2 == IF esc THEN Escalate(m1) ELSE IF clr THEN ResetLevel(m1) ELSE m1
        cleared == IF clr THEN Clear(m1) ELSE <<>>
    IN [m |-> m2,
        sent |-> cleared \o (IF status # 0 THEN Report(m2) ELSE <<>>),
        level_name |-> LevelAt(m2.level_index).name]

\* The Ok(r) branch of Monitor::run up to the call of report: the tally
\* update, the escalation or the clear and reset, the level name, the report.
RunOk(m, status) ==
    LET m1 == Tallied(m, status)
        l == LevelAt(m1.level_index)
        esc == status # 0 /\ l.errors_to_escalate <= m1.failure_tally
        clr == status = 0 /\ l.successes_to_clear <= m1.success_tally
        m2 == IF esc THEN Escalate(m1) ELSE IF clr THEN ResetLevel(m1) ELSE m1
        cleared == IF clr THEN Clear(m1) ELSE <<>>
    IN [m |-> m2,
        sent |-> cleared \o Report(m2),
        level_name |-> LevelAt(m2.level_index).name]

\* Monitor::prune_results: the DELETE has no placeholder and is given one
\* parameter.  Rows are ordered by id, the newest last.
PruneResults(rows) ==
    IF ExecuteOk(0, <<MonName>>)
    THEN IF Len(rows) > PruneKeep
         THEN SubSeq(rows, Len(rows) - PruneKeep + 1, Len(rows))
         ELSE rows
    ELSE rows

NextId(rows) == IF rows = <<>> THEN 1 ELSE rows[Len(rows)].id + 1

\* Monitor::record_result: the INSERT (nine placeholders, nine parameters),
\* then the prune.
RecordResult(rows, level_name, status) ==
    LET row == [id |-> NextId(rows), monitor_name |-> MonName,
                level_name |-> level_name, status |-> status]
    IN IF ExecuteOk(9, <<1, 2, 3, 4, 5, 6, 7, 8, 9>>)
       THEN PruneResults(Append(rows, row))
       ELSE rows

\* The match of Monitor::run on the result of execute(): the Ok branch runs
\* the transition, the report and record_result; the Err branch only logs.
Cycle(m, rows, o) ==
    IF Execute(o).ok
    THEN LET r == RunOk(m, Execute(o).status)
         IN [m |-> r.m, sent |-> r.sent, level_name |-> r.level_name,
             rows |-> RecordResult(rows, r.level_name, Execute(o).status)]
    ELSE [m |-> m, sent |-> <<>>, level_name |-> "", rows |-> rows]

\* Monitor::save_reporters: one upsert per registered reporter, each with
\* three placeholders and the two parameters (name, state); the first error
\* is returned.
SaveReportersOk ==
    \A r \in DOMAIN reporters : ExecuteOk(3, <<MonName, reporters[r]>>)

\* save_monitor writing the new level_index but the tallies the cycle
\* began with.
SaveMonitor_Torn(table, m) ==
    {r \in table : r.name # MonName} \cup
        {[name |-> MonName, level_index |-> m.level_index,
          failure_tally |-> cycle.pre.failure_tally,
          success_tally |-> cycle.pre.success_tally]}

\* Monitor::save_monitor: upsert on the unique name.
SaveMonitor(table, m) ==
    {r \in table : r.name # MonName} \cup
        {[name |-> MonName, level_index |-> m.level_index,
          failure_tally |-> m.failure_tally, success_tally |-> m.success_tally]}

\* Monitor::save: save_reporters()?, then save_monitor()?.
Save(table, m) == IF SaveReportersOk THEN SaveMonitor(table, m) ELSE table

\* Monitor::load_monitor: the last row selected for the name, if any.
LoadMonitor(m) ==
    LET rows == {r \in monitor_state : r.name = MonName}
    IN IF rows = {} THEN m
       ELSE LET s == CHOOSE r \in rows : TRUE
            IN Triple(s.level_index, s.failure_tally, s.success_tally)

\* Monitor::load_reporters: returns Ok(()) without reading the store or
\* calling restore on any reporter.
LoadReporters(reps) == reps

----------------------------------------------------------------------------
\* The components a specification does not exercise stay as they are here.
OthersIdle ==
    /\ tasks = <<>>
    /\ token = FALSE
    /\ main_pc = "idle"
    /\ timing = <<>>
    /\ db_last = <<>>
    /\ conf = <<>>
    /\ pd = <<>>

Init ==
    /\ OthersIdle
    /\ levels \in Configs
    /\ \E regs \in Registrations : reporters = [r \in regs |-> <<>>]
    /\ level_index = 0
    /\ failure_tally = 0
    /\ success_tally = 0
    /\ running = FALSE
    /\ pc = "new"
    /\ monitor_state = {}
    /\ reporter_state = {}
    /\ results = <<>>
    /\ cycle = NoCycle
    /\ completed = <<>>
    /\ prev = <<>>
    /\ fail_hist = <<>>
    /\ restarts = 0

\* Monitor::start up to its first call of run: running is set, then load(),
\* which is load_reporters and then load_monitor.
Start ==
    /\ pc = "new"
    /\ running' = TRUE
    /\ LET m == LoadMonitor(Mon)
       IN /\ level_index' = m.level_index
          /\ failure_tally' = m.failure_tally
          /\ success_tally' = m.success_tally
    /\ reporters' = LoadReporters(reporters)
    /\ pc' = "ready"
    /\ UNCHANGED <<levels, monitor_state, reporter_state, results,
                   cycle, completed, prev, fail_hist, restarts>>
    /\ UNCHANGED otherVars

\* One call of Monitor::run in which no index is out of range: the match on
\* the result of execute(), then save().
Run(o) ==
    /\ pc \in {"ready", "wait"}
    /\ running
    /\ Len(results) < MaxRuns
    /\ Execute(o).ok => InRange(Tallied(Mon, Execute(o).status).level_index)
    /\ LET c == Cycle(Mon, results, o)
       IN /\ level_index' = c.m.level_index
          /\ failure_tally' = c.m.failure_tally
          /\ success_tally' = c.m.success_tally
          /\ results' = c.rows
          /\ monitor_state' = Save(monitor_state, c.m)
          /\ cycle' = [outcome |-> o, pre |-> Mon, sent |-> c.sent,
                       inserted |-> Len(c.rows) - Len(results),
                       level_name |-> c.level_name, saved |-> SaveReportersOk]
          /\ completed' = <<c.m>>
          /\ fail_hist' = IF ~Execute(o).ok THEN fail_hist
                          ELSE IF Execute(o).status # 0 THEN Append(fail_hist, Mon)
                          ELSE <<>>
    /\ pc' = "wait"
    /\ UNCHANGED <<levels, reporters, running, reporter_state, prev, restarts>>
    /\ UNCHANGED otherVars

\* One call of Monitor::run in which level_index is no index of levels:
\* self.levels[self.level_index] panics after the tally update, and the task
\* ends there.
RunPanic(o) ==
    /\ pc \in {"ready", "wait"}
    /\ running
    /\ Execute(o).ok
    /\ ~InRange(Tallied(Mon, Execute(o).status).level_index)
    /\ LET m1 == Tallied(Mon, Execute(o).status)
       IN /\ level_index' = m1.level_index
          /\ failure_tally' = m1.failure_tally
          /\ success_tally' = m1.success_tally
    /\ cycle' = [outcome |-> "panic", pre |-> Mon, sent |-> <<>>,
                 inserted |-> 0, level_name |-> "", saved |-> FALSE]
    /\ pc' = "panicked"
    /\ UNCHANGED <<levels, reporters, running, monitor_state, reporter_state,
                   results, completed, prev, fail_hist, restarts>>
    /\ UNCHANGED otherVars

\* Monitor::stop, called when the cancellation is observed at the select.
Stop ==
    /\ pc = "wait"
    /\ running
    /\ running' = FALSE
    /\ pc' = "stopped"
    /\ UNCHANGED <<levels, reporters, level_index, failure_tally, success_tally,
                   monitor_state, reporter_state, results, cycle, completed,
                   prev, fail_hist, restarts>>
    /\ UNCHANGED otherVars

\* A new process on the same store: Monitor::from_args on the configuration
\* it reads, then register_reporter for each configured reporter.
Restart(cfg, regs) ==
    /\ pc \in {"stopped", "panicked"}
    /\ restarts < MaxRestarts
    /\ levels' = cfg
    /\ reporters' = [r \in regs |-> <<>>]
    /\ level_index' = 0
    /\ failure_tally' = 0
    /\ success_tally' = 0
    /\ running' = FALSE
    /\ pc' = "new"
    /\ prev' = IF pc = "stopped" THEN completed ELSE <<>>
    /\ completed' = <<>>
    /\ cycle' = NoCycle
    /\ fail_hist' = <<>>
    /\ restarts' = restarts + 1
    /\ UNCHANGED <<monitor_state, reporter_state, results>>
    /\ UNCHANGED otherVars

Next ==
    \/ Start
    \/ \E o \in Outcomes : Run(o)
    \/ \E o \in Outcomes : RunPanic(o)
    \/ Stop
    \/ \E cfg \in Configs, regs \in Registrations : Restart(cfg, regs)

Spec == Init /\ [][Next]_vars

\* A reporter state an earlier process left in the store for this monitor.
StoredState == <<7>>

\* The monitor started on a store that already holds a reporter_state row
\* for (slack, this monitor).
InitStored ==
    /\ OthersIdle
    /\ levels = CfgFast
    /\ \E regs \in Registrations : reporters = [r \in regs |-> <<>>]
    /\ level_index = 0
    /\ failure_tally = 0
    /\ success_tally = 0
    /\ running = FALSE
    /\ pc = "new"
    /\ monitor_state = {}
    /\ reporter_state =
          {[name |-> "slack", monitor_name |-> MonName, state |-> StoredState]}
    /\ results = <<>>
    /\ cycle = NoCycle
    /\ completed = <<>>
    /\ prev = <<>>
    /\ fail_hist = <<>>
    /\ restarts = 0

SpecLoad == InitStored /\ [][Next]_vars

----------------------------------------------------------------------------
\* Helpers of the properties below.

Min(a, b) == IF a < b THEN a ELSE b

\* The dispatches of the last cycle, by operation.
ClearsSent == SelectSeq(cycle.sent, LAMBDA d : d.op = "clear")

ReportsSent == SelectSeq(cycle.sent, LAMBDA d : d.op = "report")

\* How many times the last cycle sent op to reporter r.
Times(op, r) ==
    Cardinality({k \in 1..Len(cycle.sent) :
                    cycle.sent[k].op = op /\ cycle.sent[k].rep = r})

\* The registered reporters named in tier i.
NamedIn(i) ==
    {ToLower(LevelAt(i).reporters[k]) : k \in 1..Len(LevelAt(i).reporters)}
        \cap DOMAIN reporters

\* The last cycle completed (the task is at its wait point or has stopped).
CycleDone == pc \in {"wait", "stopped"} /\ cycle.outcome \in Outcomes

\* The last cycle was the successful run at a tier > 0 that brought
\* success_tally up to that tier's successes_to_clear.
ClearedAbove ==
    /\ CycleDone
    /\ cycle.outcome = "exit0"
    /\ cycle.pre.level_index > 0
    /\ cycle.pre.success_tally + 1 >= LevelAt(cycle.pre.level_index).successes_to_clear

\* The last cycle was a failed run that moved the monitor one tier up.
Escalated ==
    /\ CycleDone
    /\ cycle.outcome = "exit1"
    /\ level_index = cycle.pre.level_index + 1

\* The last cycle was a failed run at the last tier whose failure_tally
\* reached that tier's errors_to_escalate.
FailedAtLast ==
    /\ CycleDone
    /\ cycle.outcome = "exit1"
    /\ cycle.pre.level_index = Len(levels) - 1
    /\ cycle.pre.failure_tally + 1 >= LevelAt(cycle.pre.level_index).errors_to_escalate

\* The last cycle was a successful run that started at baseline.
SucceededAtBase ==
    /\ CycleDone
    /\ cycle.outcome = "exit0"
    /\ cycle.pre.level_index = 0

----------------------------------------------------------------------------
\* C1: at a tier > 0, the successful run that brings success_tally up to the
\* tier's successes_to_clear leaves (level_index, failure_tally,
\* success_tally) = (0, 0, 0) at the end of the cycle.
C1_ClearResetsTriple == ClearedAbove => Mon = Zero

\* C2: when a clear is triggered at tier i > 0, the clear of that cycle is
\* dispatched at tier i: once to every registered reporter named in tier i,
\* and to no other reporter (not to those of tier 0).
C2_ClearGoesToActiveTier ==
    ClearedAbove =>
        /\ \A k \in 1..Len(ClearsSent) : ClearsSent[k].tier = cycle.pre.level_index
        /\ \A r \in NamedIn(cycle.pre.level_index) : Times("clear", r) = 1
        /\ \A r \in DOMAIN reporters \ NamedIn(cycle.pre.level_index) :
              Times("clear", r) = 0

C2_Witness ==
    /\ ClearedAbove
    /\ ClearsSent # <<>>
    /\ NamedIn(0) \ NamedIn(cycle.pre.level_index) # {}

\* C3: from any reachable state with level_index = i, errors_to_escalate of
\* tier i consecutive failed runs leave level_index = min(i + 1, len - 1).
C3_EscalatesExactlyOneTier ==
    CycleDone =>
        \A k \in 1..Len(fail_hist) :
            LET s == fail_hist[k]
                n == Len(fail_hist) - k + 1
            IN n = LevelAt(s.level_index).errors_to_escalate =>
                   level_index = Min(s.level_index + 1, Len(levels) - 1)

\* C4: in a cycle whose failed run escalates from tier i to tier i + 1, the
\* report is dispatched once to every registered reporter named in tier
\* i + 1 and to no reporter named only in tier i.
C4_ReportGoesToArrivedTier ==
    Escalated =>
        /\ \A r \in NamedIn(level_index) : Times("report", r) = 1
        /\ \A r \in NamedIn(cycle.pre.level_index) \ NamedIn(level_index) :
              Times("report", r) = 0
        /\ \A k \in 1..Len(ReportsSent) : ReportsSent[k].tier = level_index

C4_Witness ==
    /\ Escalated
    /\ ReportsSent # <<>>
    /\ NamedIn(cycle.pre.level_index) \ NamedIn(level_index) # {}

\* C5: a failed run at the last tier whose failure_tally reaches the tier's
\* errors_to_escalate leaves level_index unchanged and still dispatches the
\* report to the last tier's reporters.
C5_LastTierHoldsAndReports ==
    FailedAtLast =>
        /\ level_index = cycle.pre.level_index
        /\ \A r \in NamedIn(Len(levels) - 1) : Times("report", r) = 1

C5_Witness ==
    /\ FailedAtLast
    /\ Len(levels) > 1
    /\ ReportsSent # <<>>

\* C6: every successful run that starts at level_index = 0 leaves
\* success_tally = 1 and level_index = 0, however many came before it.
C6_BaselineTallyPinned ==
    SucceededAtBase => success_tally = 1 /\ level_index = 0

C6_Witness ==
    /\ SucceededAtBase
    /\ cycle.pre.success_tally = 1
    /\ LevelAt(0).successes_to_clear > 1

\* C7: no cycle that starts at level_index = 0 and whose run succeeds
\* dispatches clear to any reporter.
C7_NoClearAtBaseline == SucceededAtBase => ClearsSent = <<>>

\* C8: in every reachable state level_index is an index of levels.
C8_LevelIndexInRange == 0 <= level_index /\ level_index < Len(levels)

\* C9: a cycle whose probe fails to launch inserts no run-history row,
\* dispatches neither report nor clear, and leaves the triple unchanged.
C9_LaunchFailureIsInert ==
    (CycleDone /\ cycle.outcome = "launch_err") =>
        /\ cycle.inserted = 0
        /\ cycle.sent = <<>>
        /\ Mon = cycle.pre

C9_Witness ==
    /\ CycleDone
    /\ cycle.outcome = "launch_err"
    /\ cycle.pre.failure_tally > 0
    /\ NamedIn(level_index) # {}

\* C10: the triple a restarted monitor holds before its first cycle is the
\* triple the previous process held at the end of its last completed cycle.
C10_RestartRestoresTriple ==
    (pc = "ready" /\ prev # <<>>) => Mon = prev[1]
----------------------------------------------------------------------------
\* The store operations of src/src/db.rs (SynthDb).

\* The in-memory variables of the monitor.
loopVars == <<levels, reporters, level_index, failure_tally, success_tally,
              running, pc, cycle, completed, prev, fail_hist, restarts>>

\* A monitor that has been constructed and is not started.
MonIdle ==
    /\ levels = CfgOne
    /\ reporters = <<>>
    /\ level_index = 0
    /\ failure_tally = 0
    /\ success_tally = 0
    /\ running = FALSE
    /\ pc = "new"
    /\ cycle = NoCycle
    /\ completed = <<>>
    /\ prev = <<>>
    /\ fail_hist = <<>>
    /\ restarts = 0

\* Names used as monitor names and as reporter names, and reporter states.
StoreNames == {"web", "slack"}

Blobs == {<<1>>, <<2>>}

\* SynthDb::save_reporter_state(mon, rep, state): the upsert binds
\* params![mon, rep, state] to the columns (name, monitor_name, state).
DbSaveReporterState(table, mon, rep, state) ==
    IF ExecuteOk(3, <<mon, rep, state>>)
    THEN {r \in table : ~(r.name = mon /\ r.monitor_name = rep)} \cup
             {[name |-> mon, monitor_name |-> rep, state |-> state]}
    ELSE table

\* SynthDb::get_reporter_state(mon, rep): WHERE name == ?1 AND
\* monitor_name = ?2 with the parameters [rep, mon]; Some(state) of the last
\* row, or None.
DbGetReporterState(table, mon, rep) ==
    LET rows == {r \in table : r.name = rep /\ r.monitor_name = mon}
    IN IF rows = {} THEN <<>> ELSE <<(CHOOSE r \in rows : TRUE).state>>

NoDbOp == [op |-> "none", mon |-> "", rep |-> "", state |-> <<>>,
           after_save |-> FALSE, result |-> <<>>, inserted |-> 0]

InitRep ==
    /\ MonIdle
    /\ monitor_state = {}
    /\ reporter_state = {}
    /\ results = <<>>
    /\ tasks = <<>>
    /\ token = FALSE
    /\ main_pc = "idle"
    /\ timing = <<>>
    /\ conf = <<>>
    /\ pd = <<>>
    /\ db_last = NoDbOp

\* A call of save_reporter_state.
DbSave(mon, rep, state) ==
    /\ reporter_state' = DbSaveReporterState(reporter_state, mon, rep, state)
    /\ db_last' = [NoDbOp EXCEPT !.op = "save", !.mon = mon, !.rep = rep,
                                 !.state = state]
    /\ UNCHANGED <<monitor_state, results, tasks, token, main_pc, timing, conf,
                   pd>>
    /\ UNCHANGED loopVars

\* A call of get_reporter_state.
DbGet(mon, rep) ==
    /\ db_last' = [NoDbOp EXCEPT
                      !.op = "get", !.mon = mon, !.rep = rep,
                      !.state = db_last.state,
                      !.after_save = (db_last.op = "save" /\ db_last.mon = mon
                                        /\ db_last.rep = rep),
                      !.result = DbGetReporterState(reporter_state, mon, rep)]
    /\ UNCHANGED <<monitor_state, reporter_state, results, tasks, token,
                   main_pc, timing, conf, pd>>
    /\ UNCHANGED loopVars

NextRep ==
    \/ \E mon \in StoreNames, rep \in StoreNames, state \in Blobs :
          DbSave(mon, rep, state)
    \/ \E mon \in StoreNames, rep \in StoreNames : DbGet(mon, rep)

SpecRep == InitRep /\ [][NextRep]_vars

\* C12: save_reporter_state(mon, rep, s) followed by
\* get_reporter_state(mon, rep) returns Some(s), also when mon # rep.
C12_ReporterStateRoundTrip ==
    (db_last.op = "get" /\ db_last.after_save) => db_last.result = <<db_last.state>>

----------------------------------------------------------------------------
\* The run history: record_result and prune_results of src/src/db.rs, called
\* in a cycle as Monitor::record_result calls its own copies of them.

\* SynthDb::record_result: the INSERT with nine placeholders and nine
\* parameters; id is the INTEGER PRIMARY KEY, one more than the largest.
DbRecordResult(rows, mon, level_name, status) ==
    IF ExecuteOk(9, <<1, 2, 3, 4, 5, 6, 7, 8, 9>>)
    THEN Append(rows, [id |-> NextId(rows), monitor_name |-> mon,
                       level_name |-> level_name, status |-> status])
    ELSE rows

\* SynthDb::prune_results(name): the DELETE keeps the PruneKeep rows with
\* the largest ids; it has no placeholder and is given params![name].
DbPruneResults(rows, name) ==
    IF ExecuteOk(0, <<name>>)
    THEN IF Len(rows) > PruneKeep
         THEN SubSeq(rows, Len(rows) - PruneKeep + 1, Len(rows))
         ELSE rows
    ELSE rows

\* The table after HistSeed cycles of monitor web, none of which had
\* anything to prune.
SeedRows ==
    [k \in 1..HistSeed |->
        [id |-> k, monitor_name |-> "web", level_name |-> "base", status |-> 0]]

InitHist ==
    /\ MonIdle
    /\ monitor_state = {}
    /\ reporter_state = {}
    /\ results = SeedRows
    /\ tasks = <<>>
    /\ token = FALSE
    /\ main_pc = "idle"
    /\ timing = <<>>
    /\ conf = <<>>
    /\ pd = <<>>
    /\ db_last = [NoDbOp EXCEPT !.inserted = HistSeed]

\* The record step of a completed cycle of monitor mon: insert, then prune.
HistCycle(mon) ==
    /\ db_last.inserted < HistSeed + MaxInserts
    /\ results' = DbPruneResults(DbRecordResult(results, mon, "base", 0), mon)
    /\ db_last' = [NoDbOp EXCEPT !.op = "record", !.mon = mon,
                                 !.inserted = db_last.inserted + 1]
    /\ UNCHANGED <<monitor_state, reporter_state, tasks, token, main_pc,
                   timing, conf, pd>>
    /\ UNCHANGED loopVars

NextHist == \E mon \in StoreNames : HistCycle(mon)

SpecHist == InitHist /\ [][NextHist]_vars

\* C13: once no cycle is in flight the results table holds exactly
\* min(rows inserted, 500) rows, and they are the most recently inserted.
C13_HistoryKeepsNewest500 ==
    LET n == IF db_last.inserted < PruneKeep THEN db_last.inserted ELSE PruneKeep
    IN /\ Len(results) = n
       /\ \A k \in 1..Len(results) : results[k].id = db_last.inserted - n + k

----------------------------------------------------------------------------
\* Configuration loading: src/src/config.rs.  An Option is a sequence of
\* length at most one (<<>> is None, <<v>> is Some(v)).  Of the scalar
\* sections log_level stands for all: overlay treats each of them alike.

\* Config::new: monitor is Some(Vec::new()), every other section None.
ConfigNew == [log_level |-> <<>>, monitor |-> <<<<>>>>]

MonArgs(n, i) == [name |-> n, interval |-> i]

\* position(|x| x.name == name): the first index with that name, 0 if none.
Position(sm, name) ==
    IF \E k \in 1..Len(sm) : sm[k].name = name
    THEN CHOOSE k \in 1..Len(sm) :
             /\ sm[k].name = name
             /\ \A j \in 1..(k - 1) : sm[j].name # name
    ELSE 0

\* Vec::remove(pos).
RemoveAt(sm, pos) == SubSeq(sm, 1, pos - 1) \o SubSeq(sm, pos + 1, Len(sm))

\* The for_each over the other configuration's monitors: remove the first
\* entry of the same name, if any, then push.
RECURSIVE MergeMonitors(_, _)
MergeMonitors(sm, om) ==
    IF om = <<>> THEN sm
    ELSE LET m == Head(om)
             pos == Position(sm, m.name)
             kept == IF pos # 0 THEN RemoveAt(sm, pos) ELSE sm
         IN MergeMonitors(Append(kept, m), Tail(om))

\* An overlay that takes the other configuration's monitor list as it is.
Overlay_ReplaceMonitors(self, other) ==
    [log_level |-> IF other.log_level # <<>> THEN other.log_level
                   ELSE self.log_level,
     monitor   |-> IF other.monitor # <<>> THEN other.monitor
                   ELSE self.monitor]

\* Config::overlay.
Overlay(self, other) ==
    [log_level |-> IF other.log_level # <<>> THEN other.log_level
                   ELSE self.log_level,
     monitor   |-> IF other.monitor # <<>>
                   THEN <<MergeMonitors(IF self.monitor # <<>>
                                        THEN self.monitor[1] ELSE <<>>,
                                        other.monitor[1])>>
                   ELSE self.monitor]

\* What a directory entry can be: a file that parses, a file that is read
\* but is not valid TOML, an entry whose content cannot be read.
LogLevels == {<<>>, <<"debug">>, <<"info">>}

MonitorLists ==
    {<<>>,
     <<<<MonArgs("a", 10)>>>>,
     <<<<MonArgs("a", 30)>>>>,
     <<<<MonArgs("b", 10)>>>>,
     <<<<MonArgs("a", 10), MonArgs("b", 30)>>>>,
     <<<<MonArgs("b", 10), MonArgs("a", 30)>>>>,
     <<<<MonArgs("a", 10), MonArgs("a", 30)>>>>}

FileContents ==
    {[kind |-> "ok", cfg |-> [log_level |-> l, monitor |-> m]] :
         l \in LogLevels, m \in MonitorLists}
    \cup {[kind |-> "bad", cfg |-> ConfigNew],
          [kind |-> "unreadable", cfg |-> ConfigNew]}

\* fs::read_dir yields the entries in an order of the file system's
\* choosing: any permutation of the files.  A file is named by its rank in
\* the lexicographic order of the file names (1 is "01.toml", 2 "02.toml").
Listings ==
    {l \in [1..MaxFiles -> 1..MaxFiles] :
         \A i, j \in 1..MaxFiles : l[i] = l[j] => i = j}

\* The d.for_each of parse_config: a read file pushes toml::from_str(v).ok(),
\* an unreadable one pushes nothing.
RECURSIVE ReadAll(_, _)
ReadAll(files, listing) ==
    IF listing = <<>> THEN <<>>
    ELSE LET f == files[Head(listing)]
             rest == ReadAll(files, Tail(listing))
         IN IF f.kind = "ok" THEN <<<<f.cfg>>>> \o rest
            ELSE IF f.kind = "bad" THEN <<<<>>>> \o rest
            ELSE rest

\* co.into_iter().rev().for_each: the last pushed is overlaid first.
RECURSIVE OverlayRev(_, _)
OverlayRev(config, co) ==
    IF co = <<>> THEN config
    ELSE LET t == co[Len(co)]
         IN OverlayRev(IF t # <<>> THEN Overlay(config, t[1]) ELSE config,
                       SubSeq(co, 1, Len(co) - 1))

\* A directory load that gives up at a file it cannot read or parse.
ParseDir_FailOnBad(files, listing) ==
    IF \E i \in 1..Len(listing) : files[listing[i]].kind # "ok"
    THEN [ok |-> FALSE, config |-> ConfigNew]
    ELSE [ok |-> TRUE, config |-> OverlayRev(ConfigNew, ReadAll(files, listing))]

\* parse_config on a directory.
ParseDir(files, listing) ==
    [ok |-> TRUE, config |-> OverlayRev(ConfigNew, ReadAll(files, listing))]

\* parse_config on a file: both ? return the error.
ParseFile(f) ==
    IF f.kind = "ok" THEN [ok |-> TRUE, config |-> f.cfg]
    ELSE [ok |-> FALSE, config |-> ConfigNew]

confFrame ==
    <<monitor_state, reporter_state, results, tasks, token, main_pc, timing,
      db_last, pd>>

InitConf ==
    /\ MonIdle
    /\ monitor_state = {}
    /\ reporter_state = {}
    /\ results = <<>>
    /\ tasks = <<>>
    /\ token = FALSE
    /\ main_pc = "idle"
    /\ timing = <<>>
    /\ db_last = NoDbOp
    /\ pd = <<>>
    /\ \E files \in [1..MaxFiles -> FileContents] :
           conf = [pc |-> "start", files |-> files, mode |-> "none",
                   listing |-> <<>>, result |-> [ok |-> TRUE,
                                                 config |-> ConfigNew]]

ParseConfigDir(listing) ==
    /\ conf.pc = "start"
    /\ conf' = [conf EXCEPT !.pc = "parsed", !.mode = "dir",
                            !.listing = listing,
                            !.result = ParseDir(conf.files, listing)]
    /\ UNCHANGED confFrame
    /\ UNCHANGED loopVars

ParseConfigFile(i) ==
    /\ conf.pc = "start"
    /\ conf' = [conf EXCEPT !.pc = "parsed", !.mode = "file",
                            !.listing = <<i>>,
                            !.result = ParseFile(conf.files[i])]
    /\ UNCHANGED confFrame
    /\ UNCHANGED loopVars

\* Neither a directory nor a file: ConfigError::InvalidPath.
ParseConfigInvalidPath ==
    /\ conf.pc = "start"
    /\ conf' = [conf EXCEPT !.pc = "parsed", !.mode = "invalid",
                            !.result = [ok |-> FALSE, config |-> ConfigNew]]
    /\ UNCHANGED confFrame
    /\ UNCHANGED loopVars

NextConf ==
    \/ \E listing \in Listings : ParseConfigDir(listing)
    \/ \E i \in 1..MaxFiles : ParseConfigFile(i)
    \/ ParseConfigInvalidPath

SpecConf == InitConf /\ [][NextConf]_vars

\* Ranks of the parsed files that set log_level / define exactly one
\* monitor called name.
SetsLogLevel ==
    {i \in 1..MaxFiles :
        conf.files[i].kind = "ok" /\ conf.files[i].cfg.log_level # <<>>}

Named(ms, name) == {k \in 1..Len(ms) : ms[k].name = name}

DefinesOnce(name) ==
    {i \in 1..MaxFiles :
        /\ conf.files[i].kind = "ok"
        /\ conf.files[i].cfg.monitor # <<>>
        /\ Cardinality(Named(conf.files[i].cfg.monitor[1], name)) = 1}

First(S) == CHOOSE i \in S : \A j \in S : i <= j

\* C14: after a directory load in which two files set log_level, the
\* effective log_level is that of the file whose name is lexicographically
\* first, in whatever order the directory was listed.
C14_ScalarFromFirstFilename ==
    (conf.pc = "parsed" /\ conf.mode = "dir" /\ Cardinality(SetsLogLevel) >= 2)
        => conf.result.config.log_level
               = conf.files[First(SetsLogLevel)].cfg.log_level

\* C15: after a directory load in which two files each define a monitor of
\* the same name, the merged list has exactly one entry of that name, and
\* it is the definition of the lexicographically first of those files.
C15_MonitorFromFirstFilename ==
    \A name \in {"a", "b"} :
        (conf.pc = "parsed" /\ conf.mode = "dir"
            /\ Cardinality(DefinesOnce(name)) >= 2)
        => LET ms == conf.result.config.monitor[1]
               src == conf.files[First(DefinesOnce(name))].cfg.monitor[1]
           IN /\ Cardinality(Named(ms, name)) = 1
              /\ \A k \in Named(ms, name) : \A j \in Named(src, name) :
                     ms[k] = src[j]

----------------------------------------------------------------------------
\* The monitor tasks and their supervisor: main of src/src/main.rs spawns
\* one task per monitor running Monitor::start, waits for the interrupt,
\* cancels the token and waits on the tracker.  A task's steps are the
\* stretches of Monitor::start and Monitor::run between two awaits.  The
\* tiers are taken to cover the loaded level_index, so that no step panics.

TaskNames == {"web", "api"}

CycleSteps == {"transition", "report", "record", "save"}

\* The steps run() goes through for a probe that ran, and for one that
\* could not be launched (the Err arm: only save).
Required(probe) == IF probe = "ok" THEN CycleSteps ELSE {"save"}

InCycle(t) == t.pc \in {"exec", "transition", "report", "record", "save"}

Spawned == [pc |-> "spawned", running |-> FALSE, timer_ready |-> FALSE,
            probe |-> "none", done |-> {}, inflight |-> 0,
            begun_by |-> "none", cancelled_in_flight |-> FALSE]

\* The first statement of run(): a cycle begins, called before the loop
\* ("start") or from the sleep branch of the select! ("sleep").
BeginCycle(t, by) ==
    [t EXCEPT !.pc = "exec", !.probe = "none", !.done = {}, !.begun_by = by,
              !.inflight = t.inflight + 1, !.cancelled_in_flight = FALSE]

\* The two branches of the select! are polled only where the loop awaits
\* it, that is after run().await has returned.
CancelObserved_Anywhere(t) == t.pc \notin {"spawned", "stopped"}
CancelObserved(t) == t.pc = "select"

TimerObserved_Anywhere(t) == t.pc \notin {"spawned", "stopped"}
TimerObserved(t) == t.pc = "select"

\* TaskTracker::wait after close: every tracked task has returned.
Joined_NoWait(ts) == TRUE
Joined(ts) == \A m \in TaskNames : ts[m].pc = "stopped"

schedFrame ==
    <<monitor_state, reporter_state, results, timing, db_last, conf, pd>>

InitSched ==
    /\ MonIdle
    /\ monitor_state = {}
    /\ reporter_state = {}
    /\ results = <<>>
    /\ timing = <<>>
    /\ conf = <<>>
    /\ pd = <<>>
    /\ db_last = NoDbOp
    /\ tasks = [m \in TaskNames |-> Spawned]
    /\ token = FALSE
    /\ main_pc = "serving"

\* Monitor::start up to the first run(): running = true, load, the sleep
\* is created, the first cycle begins whatever the token says.
TaskStart(m) ==
    /\ tasks[m].pc = "spawned"
    /\ tasks' = [tasks EXCEPT ![m] =
                    BeginCycle([tasks[m] EXCEPT !.running = TRUE,
                                                !.timer_ready = FALSE],
                               "start")]
    /\ UNCHANGED <<token, main_pc>>
    /\ UNCHANGED schedFrame
    /\ UNCHANGED loopVars

\* self.execute(): Ok goes on to the transition, Err to save.
TaskExecute(m, o) ==
    /\ tasks[m].pc = "exec"
    /\ tasks' = [tasks EXCEPT ![m].probe = o,
                              ![m].pc = IF o = "ok" THEN "transition"
                                        ELSE "save"]
    /\ UNCHANGED <<token, main_pc>>
    /\ UNCHANGED schedFrame
    /\ UNCHANGED loopVars

\* The tally update with escalate, or clear().await and reset_level.
TaskTransition(m) ==
    /\ tasks[m].pc = "transition"
    /\ tasks' = [tasks EXCEPT ![m].done = @ \cup {"transition"},
                              ![m].pc = "report"]
    /\ UNCHANGED <<token, main_pc>>
    /\ UNCHANGED schedFrame
    /\ UNCHANGED loopVars

\* self.report(&r).await
TaskReport(m) ==
    /\ tasks[m].pc = "report"
    /\ tasks' = [tasks EXCEPT ![m].done = @ \cup {"report"},
                              ![m].pc = "record"]
    /\ UNCHANGED <<token, main_pc>>
    /\ UNCHANGED schedFrame
    /\ UNCHANGED loopVars

\* self.record_result(r).await
TaskRecord(m) ==
    /\ tasks[m].pc = "record"
    /\ tasks' = [tasks EXCEPT ![m].done = @ \cup {"record"},
                              ![m].pc = "save"]
    /\ UNCHANGED <<token, main_pc>>
    /\ UNCHANGED schedFrame
    /\ UNCHANGED loopVars

\* self.save().await, then run() returns to the loop.
TaskSave(m) ==
    /\ tasks[m].pc = "save"
    /\ tasks' = [tasks EXCEPT ![m].done = @ \cup {"save"},
                              ![m].inflight = @ - 1,
                              ![m].pc = "select"]
    /\ UNCHANGED <<token, main_pc>>
    /\ UNCHANGED schedFrame
    /\ UNCHANGED loopVars

\* The deadline of the pinned sleep passes, during a cycle or at the select.
TimerExpire(m) ==
    /\ tasks[m].pc \notin {"spawned", "stopped"}
    /\ ~tasks[m].timer_ready
    /\ tasks' = [tasks EXCEPT ![m].timer_ready = TRUE]
    /\ UNCHANGED <<token, main_pc>>
    /\ UNCHANGED schedFrame
    /\ UNCHANGED loopVars

\* The sleep branch of the select!: reset the sleep, run the next cycle.
\* select! is not biased: with both branches ready either may be taken.
SelectTimer(m) ==
    /\ TimerObserved(tasks[m])
    /\ tasks[m].timer_ready
    /\ tasks' = [tasks EXCEPT ![m] =
                    BeginCycle([tasks[m] EXCEPT !.timer_ready = FALSE],
                               "sleep")]
    /\ UNCHANGED <<token, main_pc>>
    /\ UNCHANGED schedFrame
    /\ UNCHANGED loopVars

\* The cancelled branch: stop() clears running and the while loop ends.
SelectCancel(m) ==
    /\ CancelObserved(tasks[m])
    /\ token
    /\ tasks' = [tasks EXCEPT ![m].running = FALSE, ![m].pc = "stopped"]
    /\ UNCHANGED <<token, main_pc>>
    /\ UNCHANGED schedFrame
    /\ UNCHANGED loopVars

\* signal::ctrl_c() returns Ok: token.cancel().
Shutdown ==
    /\ main_pc = "serving"
    /\ token' = TRUE
    /\ main_pc' = "joining"
    /\ tasks' = [m \in TaskNames |->
                    [tasks[m] EXCEPT !.cancelled_in_flight = InCycle(tasks[m])]]
    /\ UNCHANGED schedFrame
    /\ UNCHANGED loopVars

\* signal::ctrl_c() returns Err: the token is left alone.
ShutdownErr ==
    /\ main_pc = "serving"
    /\ main_pc' = "joining"
    /\ UNCHANGED <<tasks, token>>
    /\ UNCHANGED schedFrame
    /\ UNCHANGED loopVars

\* tracker.close(); tracker.wait().await; main returns.
Join ==
    /\ main_pc = "joining"
    /\ Joined(tasks)
    /\ main_pc' = "exited"
    /\ UNCHANGED <<tasks, token>>
    /\ UNCHANGED schedFrame
    /\ UNCHANGED loopVars

TaskStep(m) ==
    \/ TaskStart(m)
    \/ \E o \in {"ok", "launch_err"} : TaskExecute(m, o)
    \/ TaskTransition(m)
    \/ TaskReport(m)
    \/ TaskRecord(m)
    \/ TaskSave(m)

NextSched ==
    \/ \E m \in TaskNames : TaskStep(m)
    \/ \E m \in TaskNames : TimerExpire(m)
    \/ \E m \in TaskNames : SelectTimer(m)
    \/ \E m \in TaskNames : SelectCancel(m)
    \/ Shutdown
    \/ ShutdownErr
    \/ Join

SpecSched == InitSched /\ [][NextSched]_vars

\* Every await of a task returns (the probe and the store calls terminate),
\* the runtime polls a woken task, and the random choice of select! between
\* two ready branches does not pick the sleep branch for ever.
FairSched ==
    /\ SpecSched
    /\ \A m \in TaskNames : WF_vars(TaskStep(m))
    /\ \A m \in TaskNames : SF_vars(SelectCancel(m))
    /\ WF_vars(Join)

AllStopped == \A m \in TaskNames : tasks[m].pc = "stopped"

\* C16: a loop that stopped after the token was cancelled during its cycle
\* has completed every step of that cycle: transition, report, history
\* insert and save (save alone when the probe could not be launched).
C16_InFlightCycleCompletes ==
    \A m \in TaskNames :
        (tasks[m].pc = "stopped" /\ tasks[m].cancelled_in_flight)
            => /\ tasks[m].done = Required(tasks[m].probe)
               /\ tasks[m].inflight = 0

C16_Witness ==
    \E m \in TaskNames :
        /\ tasks[m].pc = "stopped"
        /\ tasks[m].cancelled_in_flight
        /\ tasks[m].probe = "ok"
        /\ tasks[m].done = CycleSteps

\* C17: with the token cancelled and the loop at its select, the loop's
\* next step is to Stopped, never into another cycle, timer ready or not.
C17_NoCycleAfterCancel ==
    [][\A m \in TaskNames :
          (token /\ tasks[m].pc = "select")
              => tasks'[m].pc \in {"select", "stopped"}]_vars

C19_OneCycleInFlight ==
    \A m \in TaskNames :
        /\ tasks[m].inflight <= 1
        /\ tasks[m].inflight = (IF InCycle(tasks[m]) THEN 1 ELSE 0)

C19_Witness ==
    \E m \in TaskNames :
        /\ tasks[m].pc = "exec"
        /\ tasks[m].begun_by = "sleep"
        /\ \E n \in TaskNames : n # m /\ InCycle(tasks[n])

----------------------------------------------------------------------------
\* The timing of Monitor::start.  Time is an integer count of one unit;
\* `now` is the instant the loop is at, `deadline` that of the pinned sleep,
\* `duration` the value the last run() returned.  A cycle is given by the
\* time r the call of run() takes and the value out <= r it returns: the
\* time up to the end of record_result, 0 when the probe did not launch.

Max(a, b) == IF a >= b THEN a ELSE b

CycleTimes == {<<r, out>> \in (1..MaxDuration) \X (0..MaxDuration) : out <= r}

timeFrame ==
    <<monitor_state, reporter_state, results, tasks, token, main_pc, db_last,
      conf, pd>>

InitTime ==
    /\ MonIdle
    /\ monitor_state = {}
    /\ reporter_state = {}
    /\ results = <<>>
    /\ tasks = <<>>
    /\ token = FALSE
    /\ main_pc = "idle"
    /\ conf = <<>>
    /\ pd = <<>>
    /\ db_last = NoDbOp
    /\ \E i \in 1..MaxInterval :
           timing = [pc |-> "new", interval |-> i, now |-> 0, deadline |-> 0,
                     duration |-> 0, starts |-> <<>>, runs |-> <<>>]

\* start() up to the select!: the sleep is created for now + interval, then
\* the first cycle runs.
TimedStart(r, out) ==
    /\ timing.pc = "new"
    /\ timing' = [timing EXCEPT !.pc = "select",
                                !.deadline = timing.now + timing.interval,
                                !.starts = <<timing.now>>,
                                !.runs = <<r>>,
                                !.now = timing.now + r,
                                !.duration = out]
    /\ UNCHANGED timeFrame
    /\ UNCHANGED loopVars

\* The sleep branch: it is taken at the deadline, or at once if the
\* deadline has passed; d = Instant::now() + interval - duration with the
\* duration of the cycle that ended; then the next cycle runs.
TimedSleep(r, out) ==
    /\ timing.pc = "select"
    /\ Len(timing.starts) < MaxStarts
    /\ LET fire == Max(timing.deadline, timing.now)
       IN timing' = [timing EXCEPT
                        !.deadline = fire + timing.interval - timing.duration,
                        !.starts = Append(@, fire),
                        !.runs = Append(@, r),
                        !.now = fire + r,
                        !.duration = out]
    /\ UNCHANGED timeFrame
    /\ UNCHANGED loopVars

\* The cancelled branch.
TimedStop ==
    /\ timing.pc = "select"
    /\ timing' = [timing EXCEPT !.pc = "stopped"]
    /\ UNCHANGED timeFrame
    /\ UNCHANGED loopVars

NextTime ==
    \/ \E c \in CycleTimes : TimedStart(c[1], c[2])
    \/ \E c \in CycleTimes : TimedSleep(c[1], c[2])
    \/ TimedStop

SpecTime == InitTime /\ [][NextTime]_vars

\* C20: if no cycle took longer than the interval, consecutive cycles start
\* exactly one interval apart; a cycle that took longer than the interval
\* is followed at once by the next.
C20_ConstantCadence ==
    \A n \in 1..(Len(timing.starts) - 1) :
        /\ (\A k \in 1..Len(timing.runs) : timing.runs[k] <= timing.interval)
               => timing.starts[n + 1] - timing.starts[n] = timing.interval
        /\ timing.runs[n] > timing.interval
               => timing.starts[n + 1] = timing.starts[n] + timing.runs[n]

\* C11: before the first cycle, every registered reporter for which the
\* store holds a state under (monitor name, reporter name) has been given
\* that state by restore.
C11_ReportersRestoredAtStart ==
    pc = "ready" =>
        \A r \in DOMAIN reporters :
            \A row \in reporter_state :
                (row.name = r /\ row.monitor_name = MonName) =>
                    reporters[r] = row.state

----------------------------------------------------------------------------
\* The incident-paging reporter: src/src/reporters/pagerduty.rs.  A String
\* is the sequence of its code points, a Vec<u8> a sequence of bytes; an
\* Option is a sequence of length at most one.

\* The dedup keys the service answers with: "a", "e-acute", "a" + euro sign.
PdKeys == {<<97>>, <<233>>, <<97, 8364>>}

\* Bytes a reporter_state row can hold that no get_state produced.
PdStoredBytes == {<<97>>, <<255>>, <<195>>, <<195, 169>>}

\* One code point with every byte above 255 cut off.
Utf8_Latin1(cp) == <<cp % 256>>

\* The UTF-8 encoding of one code point below 65536.
Utf8(cp) ==
    IF cp < 128 THEN <<cp>>
    ELSE IF cp < 2048 THEN <<192 + (cp \div 64), 128 + (cp % 64)>>
    ELSE <<224 + (cp \div 4096), 128 + ((cp \div 64) % 64), 128 + (cp % 64)>>

\* String::into_bytes
RECURSIVE IntoBytes(_)
IntoBytes(str) ==
    IF str = <<>> THEN <<>> ELSE Utf8(Head(str)) \o IntoBytes(Tail(str))

Continuation(b) == 128 <= b /\ b < 192

\* String::from_utf8 on sequences of one- to three-byte forms: the string,
\* or an error for a stray or missing continuation byte, an overlong form,
\* a surrogate or a byte that starts no such form.
RECURSIVE FromUtf8(_)
FromUtf8(bytes) ==
    IF bytes = <<>> THEN [ok |-> TRUE, str |-> <<>>]
    ELSE LET b == bytes[1]
             n == IF b < 128 THEN 1
                  ELSE IF 192 <= b /\ b < 224 THEN 2
                  ELSE IF 224 <= b /\ b < 240 THEN 3
                  ELSE 0
             cp == IF n = 1 THEN b
                   ELSE IF n = 2 THEN (b - 192) * 64 + (bytes[2] - 128)
                   ELSE (b - 224) * 4096 + (bytes[2] - 128) * 64
                            + (bytes[3] - 128)
             good == /\ n # 0
                     /\ Len(bytes) >= n
                     /\ \A k \in 2..n : Continuation(bytes[k])
                     /\ n = 2 => cp >= 128
                     /\ n = 3 => cp >= 2048 /\ ~(55296 <= cp /\ cp < 57344)
         IN IF ~good THEN [ok |-> FALSE, str |-> <<>>]
            ELSE LET rest == FromUtf8(SubSeq(bytes, n + 1, Len(bytes)))
                 IN IF rest.ok THEN [ok |-> TRUE, str |-> <<cp>> \o rest.str]
                    ELSE rest

\* PagerdutyReporter::get_state
PdGetStateOf(dedup_key) ==
    IF dedup_key = <<>> THEN <<>> ELSE <<IntoBytes(dedup_key[1])>>

\* PagerdutyReporter::load_state: the dedup_key it leaves.
PdLoadStateOf(state) ==
    IF FromUtf8(state).ok THEN <<FromUtf8(state).str>> ELSE <<>>

\* PagerdutyReporter::format with the event_action report or clear sets:
\* the message carries the dedup_key the reporter holds.
PdFormat(dedup_key, action) == [event_action |-> action, dedup_key |-> dedup_key]

\* What can happen to an event: the template does not render, the request
\* fails, the answer is not 202, its body is no PagerdutyResponse, or it is
\* accepted with a response whose dedup_key is key.
PdOutcomes ==
    {[kind |-> k, key |-> <<>>] :
        k \in {"render_err", "send_err", "non202", "bad_body"}}
    \cup {[kind |-> "accepted", key |-> key] :
             key \in {<<>>} \cup {<<k>> : k \in PdKeys}}

\* from_toml: no dedup key.  taken/state/held: the last get_state, what it
\* returned and the key held then; loaded/fresh_key: a second reporter made
\* by from_toml from the same table and given load_state; op/outcome/before/
\* sent/returned: the last event, the key held before it, the message sent
\* and the dedup_key of the response.
PdNew == [dedup_key |-> <<>>, taken |-> FALSE, state |-> <<>>, held |-> <<>>,
          loaded |-> "no", fresh_key |-> <<>>,
          op |-> "none", outcome |-> "none", before |-> <<>>, sent |-> <<>>,
          returned |-> <<>>]

pdFrame ==
    <<monitor_state, reporter_state, results, tasks, token, main_pc, timing,
      db_last, conf>>

InitPd ==
    /\ MonIdle
    /\ monitor_state = {}
    /\ reporter_state = {}
    /\ results = <<>>
    /\ tasks = <<>>
    /\ token = FALSE
    /\ main_pc = "idle"
    /\ timing = <<>>
    /\ conf = <<>>
    /\ db_last = NoDbOp
    /\ pd = PdNew

\* report and clear forgetting the key when the event is not accepted.
PdEvent_DropKeyOnError(action, o, key_on_ok) ==
    pd' = [pd EXCEPT !.op = action, !.outcome = o.kind,
                     !.before = pd.dedup_key,
                     !.returned = o.key,
                     !.sent = IF o.kind = "render_err" THEN <<>>
                              ELSE <<PdFormat(pd.dedup_key, action)>>,
                     !.dedup_key = IF o.kind = "accepted" THEN key_on_ok
                                   ELSE <<>>]

\* The body of report and of clear: format, send, and on Ok the new key.
PdEvent(action, o, key_on_ok) ==
    pd' = [pd EXCEPT !.op = action, !.outcome = o.kind,
                     !.before = pd.dedup_key,
                     !.returned = o.key,
                     !.sent = IF o.kind = "render_err" THEN <<>>
                              ELSE <<PdFormat(pd.dedup_key, action)>>,
                     !.dedup_key = IF o.kind = "accepted" THEN key_on_ok
                                   ELSE pd.dedup_key]

\* Reporter::report
PdReport(o) ==
    /\ PdEvent("trigger", o, o.key)
    /\ UNCHANGED pdFrame
    /\ UNCHANGED loopVars

\* Reporter::clear
PdClear(o) ==
    /\ PdEvent("resolve", o, <<>>)
    /\ UNCHANGED pdFrame
    /\ UNCHANGED loopVars

\* Reporter::get_state
PdGetState ==
    /\ pd' = [pd EXCEPT !.op = "get_state", !.outcome = "none",
                        !.before = pd.dedup_key, !.sent = <<>>,
                        !.returned = <<>>,
                        !.taken = TRUE, !.held = pd.dedup_key,
                        !.state = PdGetStateOf(pd.dedup_key),
                        !.loaded = "no", !.fresh_key = <<>>]
    /\ UNCHANGED pdFrame
    /\ UNCHANGED loopVars

\* load_state on a new reporter with the bytes the last get_state returned.
PdLoadSnapshot ==
    /\ pd.taken
    /\ pd.state # <<>>
    /\ pd' = [pd EXCEPT !.loaded = "snapshot",
                        !.fresh_key = PdLoadStateOf(pd.state[1])]
    /\ UNCHANGED pdFrame
    /\ UNCHANGED loopVars

\* load_state on a new reporter with other bytes.
PdLoadBytes(b) ==
    /\ pd' = [pd EXCEPT !.loaded = "bytes", !.fresh_key = PdLoadStateOf(b)]
    /\ UNCHANGED pdFrame
    /\ UNCHANGED loopVars

NextPd ==
    \/ \E o \in PdOutcomes : PdReport(o)
    \/ \E o \in PdOutcomes : PdClear(o)
    \/ PdGetState
    \/ PdLoadSnapshot
    \/ \E b \in PdStoredBytes : PdLoadBytes(b)

SpecPd == InitPd /\ [][NextPd]_vars

\* C22: a new reporter given the bytes get_state returned holds the dedup
\* key the snapshotted reporter held, so its next report and its next clear
\* carry the same dedup_key.
C22_DedupKeyRoundTrip ==
    pd.loaded = "snapshot" =>
        /\ pd.fresh_key = pd.held
        /\ \A a \in {"trigger", "resolve"} :
               PdFormat(pd.fresh_key, a) = PdFormat(pd.held, a)

C22_Witness ==
    /\ pd.loaded = "snapshot"
    /\ pd.held = <<<<97, 8364>>>>
    /\ pd.state = <<<<97, 226, 130, 172>>>>

----------------------------------------------------------------------------
\* Monitor::start and Monitor::run statement by statement: one monitor, its
\* store, and a process that can die at any point.  pc is the statement the
\* task is at; cycle.steps lists the statements the cycle in flight has
\* executed, each with its result.

\* Two tiers that both name the two reporters main can register.
CfgPair == << Lvl("base", 1, 1, <<"slack", "splunk">>),
              Lvl("page", 1, 2, <<"splunk", "slack">>) >>

\* Result of a call into the store (db.call(..).await).
IoResults == {"ok", "err"}

\* The control flow of start() and run(): the statement that follows
\* statement p when p's result is r.  Every Err of load, record_result and
\* save is matched and logged; `?` inside record_result and save skips the
\* rest of that function.
RunFlow(p, r) ==
    CASE p = "load" -> "execute"
      [] p = "execute" -> IF r = "ok" THEN "tally" ELSE "save_reporters"
      [] p = "tally" -> IF r = "escalate" THEN "escalate"
                        ELSE IF r = "clear" THEN "clear" ELSE "report"
      [] p = "escalate" -> "report"
      [] p = "clear" -> "reset"
      [] p = "reset" -> "report"
      [] p = "report" -> "insert"
      [] p = "insert" -> IF r = "ok" THEN "prune" ELSE "save_reporters"
      [] p = "prune" -> "save_reporters"
      [] p = "save_reporters" -> IF r = "ok" THEN "save_monitor" ELSE "select"
      [] p = "save_monitor" -> "select"
      [] p = "select" -> IF r = "sleep" THEN "execute" ELSE "stopped"

\* start() giving up when load() fails.
NextPc_LoadErrStops(p, r) ==
    IF p = "load" /\ r = "err" THEN "stopped" ELSE RunFlow(p, r)

\* run() reporting only after the result has been recorded.
NextPc_ReportAfterRecord(p, r) ==
    IF p = "report" THEN "save_reporters"
    ELSE IF p = "prune" \/ (p = "insert" /\ r = "err") THEN "report"
    ELSE IF RunFlow(p, r) = "report" THEN "insert"
    ELSE RunFlow(p, r)

\* run() unwrapping the results of the store calls.
NextPc_StoreErrPanics(p, r) ==
    IF p \in {"insert", "prune", "save_reporters", "save_monitor"} /\ r = "err"
    THEN "panicked"
    ELSE RunFlow(p, r)

\* save() going on to save_monitor after save_reporters has failed.
NextPc_SaveMonitorAfterReporterErr(p, r) ==
    IF p = "save_reporters" THEN "save_monitor" ELSE RunFlow(p, r)

NextPc(p, r) == RunFlow(p, r)

\* The positions inside run().
RunPcs == {"execute", "tally", "escalate", "clear", "reset", "report",
           "insert", "prune", "save_reporters", "save_monitor"}

StepIdle == [outcome |-> "none", pre |-> Zero, steps |-> <<>>, sent |-> <<>>,
             level_name |-> "", load |-> "none", n |-> 0, total |-> 0,
             after_failure |-> FALSE]

Did(c, step, res) == [c EXCEPT !.steps = Append(@, [step |-> step, res |-> res])]

\* The loop of report / clear with what became of each delivery: d maps
\* each reporter main can register to "ok" or "fail".  The reporter's method
\* returns (), so the loop goes on to the next name whatever happened.
Deliver_StopAtFailure(op, i, d) ==
    LET all == Notify(op, i)
        firstFail == IF \E k \in 1..Len(all) : d[all[k].rep] = "fail"
                     THEN CHOOSE k \in 1..Len(all) :
                              /\ d[all[k].rep] = "fail"
                              /\ \A j \in 1..(k - 1) : d[all[j].rep] = "ok"
                     ELSE Len(all)
    IN [k \in 1..firstFail |->
           [op |-> op, rep |-> all[k].rep, tier |-> i,
            delivered |-> d[all[k].rep] = "ok"]]

Deliver(op, i, d) ==
    LET all == Notify(op, i)
    IN [k \in 1..Len(all) |->
           [op |-> op, rep |-> all[k].rep, tier |-> i,
            delivered |-> d[all[k].rep] = "ok"]]

Deliveries == [{"slack", "splunk"} -> {"ok", "fail"}]

\* Variables the steps of a cycle leave alone unless they say otherwise.
stepFrame == <<levels, prev, fail_hist, restarts, reporter_state>>

InitSteps ==
    /\ OthersIdle
    /\ levels = CfgPair
    /\ \E regs \in {{}, {"slack", "splunk"}} : reporters = [r \in regs |-> <<>>]
    /\ level_index = 0
    /\ failure_tally = 0
    /\ success_tally = 0
    /\ running = FALSE
    /\ pc = "new"
    /\ monitor_state = {}
    /\ reporter_state = {}
    /\ results = <<>>
    /\ cycle = StepIdle
    /\ completed = <<>>
    /\ prev = <<>>
    /\ fail_hist = <<>>
    /\ restarts = 0

SetMon(m) ==
    /\ level_index' = m.level_index
    /\ failure_tally' = m.failure_tally
    /\ success_tally' = m.success_tally

\* run() returns and the loop is back at its select!.
AtSelect(p) == completed' = IF p = "select" THEN Append(completed, Mon) ELSE completed

\* start(): running = true, then load(); its Err is logged.
StepLoad(io) ==
    /\ pc = "new"
    /\ running' = TRUE
    /\ SetMon(IF io = "ok" THEN LoadMonitor(Mon) ELSE Mon)
    /\ reporters' = LoadReporters(reporters)
    /\ cycle' = [cycle EXCEPT !.load = io]
    /\ pc' = NextPc("load", io)
    /\ UNCHANGED <<monitor_state, results, completed>>
    /\ UNCHANGED stepFrame
    /\ UNCHANGED otherVars

\* run() begins: self.execute().
StepExecute(o) ==
    /\ pc = "execute"
    /\ running
    /\ cycle.total < MaxCycles
    /\ LET res == IF Execute(o).ok THEN "ok" ELSE "err"
       IN /\ cycle' = Did([cycle EXCEPT !.outcome = o, !.pre = Mon,
                                        !.steps = <<>>, !.sent = <<>>,
                                        !.level_name = "",
                                        !.n = @ + 1, !.total = @ + 1],
                          "execute", res)
          /\ pc' = NextPc("execute", res)
    /\ UNCHANGED <<reporters, level_index, failure_tally, success_tally,
                   running, monitor_state, results, completed>>
    /\ UNCHANGED stepFrame
    /\ UNCHANGED otherVars

\* incr_failure or incr_success, then the test against the tier's threshold.
StepTally ==
    /\ pc = "tally"
    /\ LET status == Execute(cycle.outcome).status
           m1 == Tallied(Mon, status)
           l == LevelAt(m1.level_index)
           res == IF status # 0 /\ l.errors_to_escalate <= m1.failure_tally
                  THEN "escalate"
                  ELSE IF status = 0 /\ l.successes_to_clear <= m1.success_tally
                  THEN "clear"
                  ELSE "stay"
       IN /\ InRange(m1.level_index)
          /\ SetMon(m1)
          /\ cycle' = Did(cycle, "tally", res)
          /\ pc' = NextPc("tally", res)
    /\ UNCHANGED <<reporters, running, monitor_state, results, completed>>
    /\ UNCHANGED stepFrame
    /\ UNCHANGED otherVars

\* self.escalate()
StepEscalate ==
    /\ pc = "escalate"
    /\ SetMon(Escalate(Mon))
    /\ cycle' = Did(cycle, "escalate", "ok")
    /\ pc' = NextPc("escalate", "ok")
    /\ UNCHANGED <<reporters, running, monitor_state, results, completed>>
    /\ UNCHANGED stepFrame
    /\ UNCHANGED otherVars

\* self.clear(&r).await
StepClear(d) ==
    /\ pc = "clear"
    /\ cycle' = Did([cycle EXCEPT !.sent = @ \o Deliver("clear", level_index, d)],
                    "clear", "ok")
    /\ pc' = NextPc("clear", "ok")
    /\ UNCHANGED <<reporters, level_index, failure_tally, success_tally,
                   running, monitor_state, results, completed>>
    /\ UNCHANGED stepFrame
    /\ UNCHANGED otherVars

\* self.reset_level()
StepReset ==
    /\ pc = "reset"
    /\ SetMon(ResetLevel(Mon))
    /\ cycle' = Did(cycle, "reset", "ok")
    /\ pc' = NextPc("reset", "ok")
    /\ UNCHANGED <<reporters, running, monitor_state, results, completed>>
    /\ UNCHANGED stepFrame
    /\ UNCHANGED otherVars

\* r.level_name = ...; self.report(&r).await
StepReport(d) ==
    /\ pc = "report"
    /\ cycle' = Did([cycle EXCEPT !.level_name = LevelAt(level_index).name,
                                  !.sent = @ \o Deliver("report", level_index, d)],
                    "report", "ok")
    /\ pc' = NextPc("report", "ok")
    /\ UNCHANGED <<reporters, level_index, failure_tally, success_tally,
                   running, monitor_state, results, completed>>
    /\ UNCHANGED stepFrame
    /\ UNCHANGED otherVars

\* record_result: the INSERT.
StepInsert(io) ==
    /\ pc = "insert"
    /\ LET res == IF io = "ok" /\ ExecuteOk(9, <<1, 2, 3, 4, 5, 6, 7, 8, 9>>)
                  THEN "ok" ELSE "err"
           row == [id |-> NextId(results), monitor_name |-> MonName,
                   level_name |-> cycle.level_name,
                   status |-> Execute(cycle.outcome).status]
       IN /\ results' = IF res = "ok" THEN Append(results, row) ELSE results
          /\ cycle' = Did(cycle, "insert", res)
          /\ pc' = NextPc("insert", res)
    /\ UNCHANGED <<reporters, level_index, failure_tally, success_tally,
                   running, monitor_state, completed>>
    /\ UNCHANGED stepFrame
    /\ UNCHANGED otherVars

\* record_result: self.prune_results().await?
StepPrune ==
    /\ pc = "prune"
    /\ LET res == IF ExecuteOk(0, <<MonName>>) THEN "ok" ELSE "err"
       IN /\ results' = PruneResults(results)
          /\ cycle' = Did(cycle, "prune", res)
          /\ pc' = NextPc("prune", res)
    /\ UNCHANGED <<reporters, level_index, failure_tally, success_tally,
                   running, monitor_state, completed>>
    /\ UNCHANGED stepFrame
    /\ UNCHANGED otherVars

\* save: self.save_reporters().await?  No statement that binds its
\* parameters is executed, so reporter_state is left as it is.
StepSaveReporters ==
    /\ pc = "save_reporters"
    /\ LET res == IF SaveReportersOk THEN "ok" ELSE "err"
       IN /\ cycle' = Did(cycle, "save_reporters", res)
          /\ pc' = NextPc("save_reporters", res)
          /\ AtSelect(NextPc("save_reporters", res))
    /\ UNCHANGED <<reporters, level_index, failure_tally, success_tally,
                   running, monitor_state, results>>
    /\ UNCHANGED stepFrame
    /\ UNCHANGED otherVars

\* save: self.save_monitor().await?, the last statement of run().
StepSaveMonitor(io) ==
    /\ pc = "save_monitor"
    /\ monitor_state' = IF io = "ok" THEN SaveMonitor(monitor_state, Mon)
                        ELSE monitor_state
    /\ cycle' = Did(cycle, "save_monitor", io)
    /\ pc' = NextPc("save_monitor", io)
    /\ AtSelect(NextPc("save_monitor", io))
    /\ UNCHANGED <<reporters, level_index, failure_tally, success_tally,
                   running, results>>
    /\ UNCHANGED stepFrame
    /\ UNCHANGED otherVars

\* The sleep branch of the select!.
StepSleep ==
    /\ pc = "select"
    /\ running
    /\ cycle.total < MaxCycles
    /\ cycle' = [cycle EXCEPT !.after_failure =
                    \E k \in 1..Len(cycle.steps) :
                        /\ cycle.steps[k].res = "err"
                        /\ cycle.steps[k].step # "execute"]
    /\ pc' = NextPc("select", "sleep")
    /\ UNCHANGED <<reporters, level_index, failure_tally, success_tally,
                   running, monitor_state, results, completed>>
    /\ UNCHANGED stepFrame
    /\ UNCHANGED otherVars

\* The cancelled branch: stop().
StepCancel ==
    /\ pc = "select"
    /\ running
    /\ running' = FALSE
    /\ pc' = NextPc("select", "cancel")
    /\ UNCHANGED <<reporters, level_index, failure_tally, success_tally,
                   monitor_state, results, cycle, completed>>
    /\ UNCHANGED stepFrame
    /\ UNCHANGED otherVars

\* The process dies, wherever it is, and is started again on the same
\* store with the same configuration: Monitor::from_args.
Crash ==
    /\ pc # "new"
    /\ restarts < MaxCrashes
    /\ SetMon(Zero)
    /\ running' = FALSE
    /\ reporters' = [r \in DOMAIN reporters |-> <<>>]
    /\ pc' = "new"
    /\ prev' = prev \o completed
    /\ completed' = <<>>
    /\ cycle' = [StepIdle EXCEPT !.total = cycle.total]
    /\ restarts' = restarts + 1
    /\ UNCHANGED <<levels, fail_hist, monitor_state, reporter_state, results>>
    /\ UNCHANGED otherVars

NextSteps ==
    \/ \E io \in IoResults : StepLoad(io)
    \/ \E o \in Outcomes : StepExecute(o)
    \/ StepTally
    \/ StepEscalate
    \/ \E d \in Deliveries : StepClear(d)
    \/ StepReset
    \/ \E d \in Deliveries : StepReport(d)
    \/ \E io \in IoResults : StepInsert(io)
    \/ StepPrune
    \/ StepSaveReporters
    \/ \E io \in IoResults : StepSaveMonitor(io)
    \/ StepSleep
    \/ StepCancel
    \/ Crash

SpecSteps == InitSteps /\ [][NextSteps]_vars

----------------------------------------------------------------------------
\* C21: in every completed cycle whose probe ran, the level_name of the
\* result handed to report and inserted into the results table is the name
\* of the tier the monitor is at when the cycle ends.
C21_LevelNameIsPostTransition ==
    (CycleDone /\ cycle.outcome # "launch_err") =>
        /\ cycle.level_name = LevelAt(level_index).name
        /\ cycle.inserted = 1
        /\ results[Len(results)].level_name = LevelAt(level_index).name

C21_Witness ==
    /\ CycleDone
    /\ level_index # cycle.pre.level_index
    /\ LevelAt(level_index).name # LevelAt(cycle.pre.level_index).name
    /\ cycle.inserted = 1

\* C23: a successful run leaves failure_tally = 0 and a failed run leaves
\* success_tally = 0; after n consecutive failed runs failure_tally is n more
\* than it was before the first of them (0 after a successful run or a new
\* start, the loaded value after a load); at a tier > 0 each success adds one
\* to success_tally and the monitor returns to baseline exactly when
\* success_tally has reached the tier's successes_to_clear.
C23_TalliesCountConsecutiveRuns ==
    CycleDone =>
        /\ cycle.outcome = "exit0" => failure_tally = 0 /\ fail_hist = <<>>
        /\ cycle.outcome = "exit1" =>
              /\ success_tally = 0
              /\ failure_tally = fail_hist[1].failure_tally + Len(fail_hist)
        /\ (cycle.outcome = "exit0" /\ cycle.pre.level_index > 0) =>
              /\ success_tally = cycle.pre.success_tally + 1
              /\ level_index = 0 <=>
                    LevelAt(cycle.pre.level_index).successes_to_clear
                        <= success_tally
              /\ level_index \in {0, cycle.pre.level_index}
        /\ (cycle.pre.level_index > 0 /\ level_index = 0) =>
              cycle.outcome = "exit0"

C23_Witness ==
    /\ CycleDone
    /\ cycle.outcome = "exit1"
    /\ cycle.pre.level_index > 0
    /\ cycle.pre.success_tally > 0
    /\ LevelAt(cycle.pre.level_index).successes_to_clear > 1

----------------------------------------------------------------------------
\* Helpers of the properties of the stepwise monitor.

\* The place of each statement of run() in the order the cycle keeps.
StepRank == [execute |-> 0, tally |-> 1, clear |-> 2, escalate |-> 2,
             reset |-> 3, report |-> 4, insert |-> 5, prune |-> 6,
             save_reporters |-> 7, save_monitor |-> 8]

StepsDone == {cycle.steps[k].step : k \in 1..Len(cycle.steps)}

Failed(step) ==
    \E k \in 1..Len(cycle.steps) :
        cycle.steps[k].step = step /\ cycle.steps[k].res = "err"

StoreFailed ==
    \E s \in {"insert", "prune", "save_reporters", "save_monitor"} : Failed(s)

\* The triple the transition alone gives a cycle that began at pre.
ExpectedAfter(pre, o) ==
    IF Execute(o).ok THEN RunOk(pre, Execute(o).status).m ELSE pre

\* The cycle in flight has returned to the select!.
StepCycleDone == pc = "select" /\ cycle.n > 0

\* The end-of-cycle triples of this monitor, in all its processes.
CycleEnds == {(prev \o completed)[k] : k \in 1..Len(prev \o completed)}

\* C24: the statements of a cycle run in the order transition (clear before
\* reset), report, insert, prune, reporter-state save, monitor-state save,
\* and the loop is at its select! only after the last of them.
C24_StepsInOrder ==
    /\ \A i, j \in 1..Len(cycle.steps) :
           i < j => StepRank[cycle.steps[i].step] < StepRank[cycle.steps[j].step]
    /\ StepCycleDone =>
           /\ "save_reporters" \in StepsDone
           /\ ~Failed("save_reporters") => "save_monitor" \in StepsDone
           /\ Execute(cycle.outcome).ok =>
                  /\ {"tally", "report", "insert"} \subseteq StepsDone
                  /\ ~Failed("insert") => "prune" \in StepsDone
                  /\ "clear" \in StepsDone <=> "reset" \in StepsDone

C24_Witness ==
    /\ StepCycleDone
    /\ StepsDone = {"execute", "tally", "clear", "reset", "report", "insert",
                    "prune", "save_reporters", "save_monitor"}
    /\ cycle.pre.level_index > 0

\* C25: when load fails at start the loop is running, goes on to its first
\* cycle, and that cycle begins with the triple (0, 0, 0).
C25_LoadFailureKeepsDefaults ==
    (pc # "new" /\ cycle.load = "err") =>
        /\ cycle.n = 0 => pc = "execute" /\ running /\ Mon = Zero
        /\ cycle.n = 1 => cycle.pre = Zero

C25_Witness ==
    /\ cycle.load = "err"
    /\ StepCycleDone
    /\ cycle.n = 1
    /\ \E row \in monitor_state : row.name = MonName /\ row.failure_tally > 0

\* C26: a failed insert, prune or save leaves the triple what the transition
\* made it and the loop running at its select!, and the next cycle begins
\* with that in-memory triple.
C26_StoreFailureOnlyLogged ==
    /\ StoreFailed =>
           /\ pc \in {"prune", "save_reporters", "save_monitor", "select",
                      "execute", "stopped"}
           /\ pc = "stopped" <=> ~running
           /\ pc = "select" => Mon = ExpectedAfter(cycle.pre, cycle.outcome)
    /\ (cycle.after_failure /\ pc \in RunPcs \ {"execute"}) =>
           /\ cycle.n >= 2
           /\ cycle.pre = completed[Len(completed)]

C26_Witness ==
    /\ cycle.after_failure
    /\ StepCycleDone
    /\ Failed("insert")
    /\ Failed("save_monitor")
    /\ running
    /\ Mon # Zero

\* C27: the triple after a cycle is what the transition alone gives,
\* whatever became of the deliveries, and every registered reporter named in
\* the tier is sent the report (and the clear) once, after a failed delivery
\* to another reporter as well.
C27_DeliveryFailureIsInert ==
    (StepCycleDone /\ Execute(cycle.outcome).ok) =>
        /\ Mon = ExpectedAfter(cycle.pre, cycle.outcome)
        /\ \A r \in NamedIn(level_index) : Times("report", r) = 1
        /\ "clear" \in StepsDone =>
               \A r \in NamedIn(cycle.pre.level_index) : Times("clear", r) = 1

C27_Witness ==
    /\ StepCycleDone
    /\ \E i, j \in 1..Len(cycle.sent) :
           /\ i < j
           /\ cycle.sent[i].op = "report"
           /\ cycle.sent[j].op = "report"
           /\ ~cycle.sent[i].delivered
           /\ cycle.sent[j].delivered
    /\ level_index # cycle.pre.level_index

\* C30: wherever the process is, the monitor_state row of the monitor, if
\* there is one, is the triple the monitor held at the end of one of its
\* cycles, and the triple a restarted process loads is such a triple.
C30_PersistedTripleIsCycleEnd ==
    /\ Cardinality(monitor_state) <= 1
    /\ \A row \in monitor_state :
           Triple(row.level_index, row.failure_tally, row.success_tally)
               \in CycleEnds
    /\ (pc = "execute" /\ cycle.n = 0 /\ cycle.load = "ok") =>
           Mon \in CycleEnds \cup {Zero}

C30_Witness ==
    /\ pc \in {"escalate", "reset"}
    /\ restarts > 0
    /\ \E row \in monitor_state :
           Triple(row.level_index, row.failure_tally, row.success_tally) # Mon

----------------------------------------------------------------------------
\* The monitor_state table of src/src/db.rs: save_monitor_state and
\* get_monitor_state, called in any order for any names.

\* The triples a caller saves.
SavedTriples == {<<li, ft, st>> : li \in 0..1, ft \in 0..2, st \in 0..1}

NextRowId(table) ==
    IF table = {} THEN 1
    ELSE 1 + (CHOOSE n \in {r.id : r \in table} :
                  \A r \in table : r.id <= n)

\* The INSERT of save_monitor_state without its ON CONFLICT clause on a
\* name column that is not UNIQUE.
DbSaveMonitorState_NoConflict(table, mon, t) ==
    table \cup {[id |-> NextRowId(table), name |-> mon, level_index |-> t[1],
                 failure_tally |-> t[2], success_tally |-> t[3]]}

\* SynthDb::save_monitor_state(mon, level_index, failure_tally,
\* success_tally): INSERT ... ON CONFLICT (name) DO UPDATE of the three value
\* columns; name is UNIQUE and id the INTEGER PRIMARY KEY.
DbSaveMonitorState(table, mon, t) ==
    IF ~ExecuteOk(4, <<mon, t[1], t[2], t[3]>>) THEN table
    ELSE IF \E r \in table : r.name = mon
    THEN {IF r.name = mon
          THEN [r EXCEPT !.level_index = t[1], !.failure_tally = t[2],
                         !.success_tally = t[3]]
          ELSE r : r \in table}
    ELSE table \cup {[id |-> NextRowId(table), name |-> mon,
                      level_index |-> t[1], failure_tally |-> t[2],
                      success_tally |-> t[3]]}

\* SynthDb::get_monitor_state(mon): the rows WHERE name == ?1 in rowid
\* order; Some of the value columns of the last one, or None.
DbGetMonitorState(table, mon) ==
    LET rows == {r \in table : r.name = mon}
        last == CHOOSE r \in rows : \A q \in rows : q.id <= r.id
    IN IF rows = {} THEN <<>>
       ELSE << <<last.level_index, last.failure_tally, last.success_tally>> >>

\* What the callers have done: the last call, the triple each name was last
\* saved with, the name of the latest save, and the names saved twice.
NoMonOp == [op |-> "none", mon |-> "", result |-> <<>>,
            saved |-> [n \in StoreNames |-> <<>>], last_mon |-> "",
            replaced |-> {}]

InitMonState ==
    /\ MonIdle
    /\ monitor_state = {}
    /\ reporter_state = {}
    /\ results = <<>>
    /\ tasks = <<>>
    /\ token = FALSE
    /\ main_pc = "idle"
    /\ timing = <<>>
    /\ conf = <<>>
    /\ pd = <<>>
    /\ db_last = NoMonOp

\* A call of save_monitor_state.
DbSaveMon(mon, t) ==
    /\ monitor_state' = DbSaveMonitorState(monitor_state, mon, t)
    /\ db_last' = [db_last EXCEPT
                      !.op = "save", !.mon = mon, !.result = <<>>,
                      !.saved[mon] = <<t>>, !.last_mon = mon,
                      !.replaced = IF db_last.saved[mon] # <<>>
                                   THEN @ \cup {mon} ELSE @]
    /\ UNCHANGED <<reporter_state, results, tasks, token, main_pc, timing,
                   conf, pd>>
    /\ UNCHANGED loopVars

\* A call of get_monitor_state.
DbGetMon(mon) ==
    /\ db_last' = [db_last EXCEPT
                      !.op = "get", !.mon = mon,
                      !.result = DbGetMonitorState(monitor_state, mon)]
    /\ UNCHANGED <<monitor_state, reporter_state, results, tasks, token,
                   main_pc, timing, conf, pd>>
    /\ UNCHANGED loopVars

NextMonState ==
    \/ \E mon \in StoreNames, t \in SavedTriples : DbSaveMon(mon, t)
    \/ \E mon \in StoreNames : DbGetMon(mon)

SpecMonState == InitMonState /\ [][NextMonState]_vars

\* C28: the monitor_state table has at most one row for a name, and
\* get_monitor_state of a name gives the triple of the latest save for that
\* name, None for a name never saved, whatever was saved for other names.
C28_MonitorStateIsLatestSave ==
    /\ \A r, q \in monitor_state : r.name = q.name => r = q
    /\ \A m \in StoreNames :
           DbGetMonitorState(monitor_state, m) = db_last.saved[m]
    /\ db_last.op = "get" => db_last.result = db_last.saved[db_last.mon]

C28_Witness ==
    /\ db_last.op = "get"
    /\ db_last.mon = "web"
    /\ db_last.last_mon = "slack"
    /\ "web" \in db_last.replaced
    /\ db_last.result # <<>>
    /\ db_last.saved["slack"] # db_last.saved["web"]

----------------------------------------------------------------------------
\* Startup in src/src/main.rs: main parses one file with its own
\* parse_config, builds a Monitor for every entry of the monitor array and
\* spawns one task for each.

\* The monitor arrays of the file: the field missing, empty, or a list.
MainMonitorLists == MonitorLists \cup {<<<<>>>>}

\* A [slack] or [splunk] table: missing, one from_toml takes, one it refuses.
ReporterTables == {"absent", "ok", "bad"}

MainFiles ==
    {[kind |-> "ok", cfg |-> [monitor |-> m, slack |-> s, splunk |-> p]] :
         m \in MainMonitorLists, s \in ReporterTables, p \in ReporterTables}
    \cup {[kind |-> "bad", cfg |-> <<>>], [kind |-> "unreadable", cfg |-> <<>>]}

\* main.rs parse_config(path) -> Config: both expect()s panic; monitor is a
\* Vec, so a file without it does not deserialize.
MainParseConfig(f) ==
    IF f.kind = "ok" /\ f.cfg.monitor # <<>>
    THEN [ok |-> TRUE, monitor |-> f.cfg.monitor[1], slack |-> f.cfg.slack,
          splunk |-> f.cfg.splunk]
    ELSE [ok |-> FALSE, monitor |-> <<>>, slack |-> "absent",
          splunk |-> "absent"]

\* The reporters main registers with each Monitor.
MainRegistered(c) ==
    (IF c.slack = "ok" THEN {"slack"} ELSE {})
        \cup (IF c.splunk = "ok" THEN {"splunk"} ELSE {})

\* The keys written so far and the tasks that wrote them.
NoWrites == [monitor_state |-> [n \in {"a", "b"} |-> {}],
             reporter_state |-> [k \in {"slack", "splunk"} \X {"a", "b"} |-> {}]]

bootFrame == <<results, token, timing, pd>>

InitBoot ==
    /\ MonIdle
    /\ monitor_state = {}
    /\ reporter_state = {}
    /\ results = <<>>
    /\ tasks = <<>>
    /\ token = FALSE
    /\ main_pc = "idle"
    /\ timing = <<>>
    /\ pd = <<>>
    /\ db_last = NoWrites
    /\ \E f \in MainFiles :
           conf = [file |-> f, result |-> MainParseConfig([kind |-> "bad",
                                                            cfg |-> <<>>])]

\* let config = parse_config(cli_args.config).
BootParse ==
    /\ main_pc = "idle"
    /\ conf' = [conf EXCEPT !.result = MainParseConfig(conf.file)]
    /\ main_pc' = IF MainParseConfig(conf.file).ok THEN "parsed"
                  ELSE "panicked"
    /\ UNCHANGED <<monitor_state, reporter_state, tasks, db_last>>
    /\ UNCHANGED bootFrame
    /\ UNCHANGED loopVars

\* for m in config.monitor: from_args, register_db, the reporters (from_toml
\* .expect panics), mons.push.
BootBuild ==
    /\ main_pc = "parsed"
    /\ LET c == conf.result
           refused == c.monitor # <<>> /\ "bad" \in {c.slack, c.splunk}
       IN /\ main_pc' = IF refused THEN "panicked" ELSE "built"
          /\ tasks' = IF refused THEN tasks
                      ELSE [k \in 1..Len(c.monitor) |->
                               [name |-> c.monitor[k].name,
                                interval |-> c.monitor[k].interval,
                                reporters |-> MainRegistered(c),
                                pc |-> "built"]]
    /\ UNCHANGED <<monitor_state, reporter_state, conf, db_last>>
    /\ UNCHANGED bootFrame
    /\ UNCHANGED loopVars

\* for mut m in mons: tracker.spawn(m.start(cancel)).
BootSpawn ==
    /\ main_pc = "built"
    /\ main_pc' = "waiting"
    /\ tasks' = [k \in DOMAIN tasks |-> [tasks[k] EXCEPT !.pc = "spawned"]]
    /\ UNCHANGED <<monitor_state, reporter_state, conf, db_last>>
    /\ UNCHANGED bootFrame
    /\ UNCHANGED loopVars

\* Monitor::save at the end of a cycle of task k: save_reporters fails before
\* it writes when a reporter is registered; otherwise save_monitor upserts
\* the row keyed by the task's monitor name.
BootTaskSave(k) ==
    /\ main_pc = "waiting"
    /\ k \in DOMAIN tasks
    /\ tasks[k].pc = "spawned"
    /\ tasks' = [tasks EXCEPT ![k].pc = "saved"]
    /\ IF tasks[k].reporters = {}
       THEN /\ monitor_state' =
                   {r \in monitor_state : r.name # tasks[k].name} \cup
                       {[name |-> tasks[k].name, level_index |-> 0,
                         failure_tally |-> 0, success_tally |-> 0]}
            /\ db_last' = [db_last EXCEPT
                              !.monitor_state[tasks[k].name] = @ \cup {k}]
       ELSE UNCHANGED <<monitor_state, db_last>>
    /\ UNCHANGED <<reporter_state, conf, main_pc>>
    /\ UNCHANGED bootFrame
    /\ UNCHANGED loopVars

NextBoot ==
    \/ BootParse
    \/ BootBuild
    \/ BootSpawn
    \/ \E k \in 1..2 : BootTaskSave(k)

SpecBoot == InitBoot /\ [][NextBoot]_vars

\* C29: of the tasks spawned for an accepted configuration no two have the
\* same monitor name, and no monitor_state or reporter_state key is written
\* by two tasks.
C29_TasksOwnDistinctKeys ==
    main_pc \in {"built", "waiting"} =>
        /\ \A i, j \in DOMAIN tasks : tasks[i].name = tasks[j].name => i = j
        /\ \A n \in DOMAIN db_last.monitor_state :
               Cardinality(db_last.monitor_state[n]) <= 1
        /\ \A n \in DOMAIN db_last.reporter_state :
               Cardinality(db_last.reporter_state[n]) <= 1

----------------------------------------------------------------------------
\* Config::overlay applied repeatedly, starting from Config::new, as the
\* directory branch of parse_config applies it.

\* The configurations a file can deserialize to.
OverlayConfigs == {f.cfg : f \in {x \in FileContents : x.kind = "ok"}}

InitOverlay ==
    /\ MonIdle
    /\ monitor_state = {}
    /\ reporter_state = {}
    /\ results = <<>>
    /\ tasks = <<>>
    /\ token = FALSE
    /\ main_pc = "idle"
    /\ timing = <<>>
    /\ db_last = NoDbOp
    /\ pd = <<>>
    /\ conf = [n |-> 0, base |-> ConfigNew, other |-> ConfigNew,
               result |-> ConfigNew]

\* config.overlay(&other).
ApplyOverlay(other) ==
    /\ conf.n < MaxOverlays
    /\ conf' = [n |-> conf.n + 1, base |-> conf.result, other |-> other,
                result |-> Overlay(conf.result, other)]
    /\ UNCHANGED confFrame
    /\ UNCHANGED loopVars

NextOverlay == \E other \in OverlayConfigs : ApplyOverlay(other)

SpecOverlay == InitOverlay /\ [][NextOverlay]_vars

\* Names of a monitor list, and the entries whose name is not in a set.
NamesOf(ms) == {ms[k].name : k \in 1..Len(ms)}

Without(ms, names) == SelectSeq(ms, LAMBDA m : m.name \notin names)

UniqueNames(ms) ==
    \A i, j \in 1..Len(ms) : ms[i].name = ms[j].name => i = j

\* C31: the monitor list of a loaded configuration, merged from a directory
\* or read from a single file, has no two entries of the same name.
C31_MergedMonitorsUnique ==
    (conf.pc = "parsed" /\ conf.result.ok /\ conf.result.config.monitor # <<>>)
        => UniqueNames(conf.result.config.monitor[1])

\* C32: an overlay keeps the base's value of a section it does not have,
\* replaces a section it has, and keeps every base monitor it does not name,
\* with its fields and in the base's order; a monitor it names is the
\* overlay's entry.
C32_OverlayChangesOnlyNamed ==
    conf.n > 0 =>
        LET b == conf.base
            o == conf.other
            r == conf.result
        IN /\ o.log_level = <<>> => r.log_level = b.log_level
           /\ o.log_level # <<>> => r.log_level = o.log_level
           /\ o.monitor = <<>> => r.monitor = b.monitor
           /\ o.monitor # <<>> =>
                  /\ r.monitor # <<>>
                  /\ Without(r.monitor[1], NamesOf(o.monitor[1]))
                         = Without(b.monitor[1], NamesOf(o.monitor[1]))
                  /\ \A name \in NamesOf(o.monitor[1]) :
                         LET in_r == Named(r.monitor[1], name)
                             in_o == Named(o.monitor[1], name)
                         IN /\ Cardinality(in_r) = 1
                            /\ \A k \in in_r :
                                   r.monitor[1][k]
                                       = o.monitor[1][CHOOSE j \in in_o :
                                              \A i \in in_o : i <= j]

C32_Witness ==
    /\ conf.n = 2
    /\ conf.base.log_level = <<"debug">>
    /\ conf.other.log_level = <<>>
    /\ conf.base.monitor = <<<<MonArgs("b", 10), MonArgs("a", 30)>>>>
    /\ conf.other.monitor = <<<<MonArgs("a", 10)>>>>
    /\ conf.result.monitor = <<<<MonArgs("b", 10), MonArgs("a", 10)>>>>

\* The entries of a listing that are files that can be read and parsed.
Parsable(files, listing) ==
    SelectSeq(listing, LAMBDA i : files[i].kind = "ok")

\* C33: a directory load skips a file that cannot be read or parsed and
\* returns the merge of the others without an error; a single-file load of
\* such a file, and a path that is neither, return an error.
C33_BadFileSkippedOrFatal ==
    conf.pc = "parsed" =>
        /\ conf.mode = "dir" =>
               /\ conf.result.ok
               /\ conf.result.config
                      = OverlayRev(ConfigNew,
                                   ReadAll(conf.files,
                                           Parsable(conf.files, conf.listing)))
        /\ conf.mode = "file" =>
               (conf.result.ok <=> conf.files[conf.listing[1]].kind = "ok")
        /\ conf.mode = "invalid" => ~conf.result.ok

C33_Witness ==
    /\ conf.pc = "parsed"
    /\ conf.mode = "dir"
    /\ conf.files[1].kind = "bad"
    /\ conf.files[2].kind = "ok"
    /\ conf.files[2].cfg.monitor = <<<<MonArgs("a", 10), MonArgs("b", 30)>>>>
    /\ conf.result.config.monitor = conf.files[2].cfg.monitor

----------------------------------------------------------------------------
\* C34: a cycle whose run gave a result, successful or failed, reports once
\* to every registered reporter of the tier the monitor is in after the
\* transition and to no other: to tier 0 after a success at baseline and
\* after a clear of a tier above it.
C34_ReportEveryCycleAtArrivedTier ==
    (CycleDone /\ cycle.outcome \in {"exit0", "exit1"}) =>
        /\ \A k \in 1..Len(ReportsSent) : ReportsSent[k].tier = level_index
        /\ \A r \in NamedIn(level_index) : Times("report", r) = 1
        /\ \A r \in DOMAIN reporters \ NamedIn(level_index) :
               Times("report", r) = 0
        /\ (SucceededAtBase \/ ClearedAbove) => level_index = 0

C34_Witness ==
    /\ ClearedAbove
    /\ ClearsSent # <<>>
    /\ ClearsSent[1].tier > 0
    /\ ReportsSent # <<>>
    /\ ReportsSent[1].tier = 0

----------------------------------------------------------------------------
\* C35: save_monitor runs only after save_reporters has returned Ok, and
\* once save_reporters has failed neither reporter_state nor monitor_state
\* is written in the rest of that cycle.
C35_SaveStopsAtReporterFailure ==
    /\ [](\A i, j \in 1..Len(cycle.steps) :
              (cycle.steps[i].step = "save_monitor"
                  /\ cycle.steps[j].step = "save_reporters")
              => (j < i /\ cycle.steps[j].res = "ok"))
    /\ [][(Failed("save_reporters") /\ cycle'.n = cycle.n)
              => (monitor_state' = monitor_state
                    /\ reporter_state' = reporter_state)]_vars

C35_Witness ==
    /\ StepCycleDone
    /\ Failed("save_reporters")
    /\ DOMAIN reporters = {"slack", "splunk"}
    /\ Mon # Zero
    /\ "save_monitor" \notin StepsDone
    /\ monitor_state = {}
    /\ reporter_state = {}

----------------------------------------------------------------------------
\* Opening the store at startup: open_db of src/src/main.rs (and
\* SynthDb::initialize_db of src/src/db.rs, which issues the same
\* statements), run by one process after another on the same database.

SchemaTables == {"results", "monitor_state", "reporter_state"}

IndexName == "idx_reporter_state_name_monitor_name"

\* CREATE TABLE IF NOT EXISTS: no error when the table is there.
CreateTableIfNotExists(schema, t) == [ok |-> TRUE, schema |-> schema \cup {t}]

\* CREATE UNIQUE INDEX with IF NOT EXISTS.
CreateUniqueIndex_IfNotExists(schema, i) ==
    [ok |-> TRUE, schema |-> schema \cup {i}]

\* CREATE UNIQUE INDEX: SQLite fails with "index ... already exists" when
\* the name is taken.
CreateUniqueIndex(schema, i) ==
    IF i \in schema THEN [ok |-> FALSE, schema |-> schema]
    ELSE [ok |-> TRUE, schema |-> schema \cup {i}]

\* The statements of open_db in order; each .expect panics on an Err.
OpenDbOn(schema) ==
    LET s1 == CreateTableIfNotExists(schema, "results").schema
        s2 == CreateTableIfNotExists(s1, "monitor_state").schema
        s3 == CreateTableIfNotExists(s2, "reporter_state").schema
    IN CreateUniqueIndex(s3, IndexName)

\* The database: its schema, the number of processes that have opened it,
\* and the rows it held when the running process opened it.
NoStore == [schema |-> {}, opens |-> 0,
            before |-> [results |-> <<>>, monitor_state |-> {},
                        reporter_state |-> {}]]

openFrame == <<tasks, token, timing, pd>>

InitOpen ==
    /\ MonIdle
    /\ monitor_state = {}
    /\ reporter_state = {}
    /\ results = <<>>
    /\ tasks = <<>>
    /\ token = FALSE
    /\ main_pc = "idle"
    /\ timing = <<>>
    /\ pd = <<>>
    /\ db_last = NoStore
    /\ conf \in [use_db_persistence : {<<>>, <<TRUE>>, <<FALSE>>}]

\* main: use_db_persistence.unwrap_or(true) chooses ./synthehol.db or a new
\* in-memory database, and open_db(..).expect(..) initializes it.
OpenDb ==
    /\ main_pc = "idle"
    /\ db_last.opens < MaxOpens
    /\ LET persist == conf.use_db_persistence # <<FALSE>>
           old == IF persist THEN db_last.schema ELSE {}
           r == OpenDbOn(old)
       IN /\ main_pc' = IF r.ok THEN "ready" ELSE "panicked"
          /\ results' = IF persist THEN results ELSE <<>>
          /\ monitor_state' = IF persist THEN monitor_state ELSE {}
          /\ reporter_state' = IF persist THEN reporter_state ELSE {}
          /\ db_last' = [schema |-> r.schema, opens |-> db_last.opens + 1,
                         before |-> [results |-> results,
                                     monitor_state |-> monitor_state,
                                     reporter_state |-> reporter_state]]
    /\ UNCHANGED conf
    /\ UNCHANGED openFrame
    /\ UNCHANGED loopVars

\* A monitor of the running process records a result.
StoreRecord(mon, status) ==
    /\ main_pc = "ready"
    /\ Len(results) < MaxRows
    /\ results' = DbRecordResult(results, mon, "base", status)
    /\ UNCHANGED <<monitor_state, reporter_state, main_pc, db_last, conf>>
    /\ UNCHANGED openFrame
    /\ UNCHANGED loopVars

\* A monitor of the running process saves its state.
StoreSave(mon, t) ==
    /\ main_pc = "ready"
    /\ monitor_state' = DbSaveMonitorState(monitor_state, mon, t)
    /\ UNCHANGED <<results, reporter_state, main_pc, db_last, conf>>
    /\ UNCHANGED openFrame
    /\ UNCHANGED loopVars

\* The process ends; the next one starts from main.
ProcessExit ==
    /\ main_pc = "ready"
    /\ main_pc' = "idle"
    /\ UNCHANGED <<results, monitor_state, reporter_state, db_last, conf>>
    /\ UNCHANGED openFrame
    /\ UNCHANGED loopVars

NextOpen ==
    \/ OpenDb
    \/ \E mon \in StoreNames, status \in {0, 1} : StoreRecord(mon, status)
    \/ \E mon \in StoreNames, t \in {<<0, 0, 1>>, <<1, 1, 0>>} : StoreSave(mon, t)
    \/ ProcessExit

SpecOpen == InitOpen /\ [][NextOpen]_vars

\* C36: opening a database file that an earlier process initialized
\* succeeds, and the rows of results, monitor_state and reporter_state are
\* those it held before.
C36_ReopenKeepsStore ==
    (db_last.opens >= 2 /\ conf.use_db_persistence # <<FALSE>>) =>
        /\ main_pc # "panicked"
        /\ main_pc = "ready" =>
               /\ SchemaTables \subseteq db_last.schema
               /\ \A k \in 1..Len(db_last.before.results) :
                      results[k] = db_last.before.results[k]

----------------------------------------------------------------------------
\* C37: at the end of every cycle at most one of failure_tally and
\* success_tally is non-zero.
C37_OneTallyNonZero ==
    CycleDone => (failure_tally = 0 \/ success_tally = 0)

C37_Witness ==
    /\ CycleDone
    /\ cycle.outcome = "exit0"
    /\ cycle.pre.failure_tally > 1
    /\ cycle.pre.level_index > 0
    /\ success_tally > 0
    /\ restarts > 0

\* C38: a cycle leaves level_index as it was, raises it by one (a failed
\* run), or sets it to 0 (a successful run).
C38_OneTierUpOrBaseline ==
    CycleDone =>
        /\ level_index \in {cycle.pre.level_index, cycle.pre.level_index + 1, 0}
        /\ level_index > cycle.pre.level_index => cycle.outcome = "exit1"
        /\ level_index < cycle.pre.level_index => cycle.outcome = "exit0"

C38_Witness ==
    /\ CycleDone
    /\ cycle.pre.level_index = 2
    /\ level_index = 0

\* The names of tier i that lowercase to a registered reporter, as listed.
ListedAndRegistered(i) ==
    SelectSeq(LevelAt(i).reporters, LAMBDA n : ToLower(n) \in DOMAIN reporters)

ExpectedDispatch(op, i) ==
    [k \in 1..Len(ListedAndRegistered(i)) |->
        [op |-> op, rep |-> ToLower(ListedAndRegistered(i)[k]), tier |-> i]]

\* C40: a cycle dispatches to the reporters whose lowercased listed name is
\* registered, in list order, and to those only; a listed name without a
\* registered reporter changes neither that nor the triple.
C40_NamesMatchedLowercased ==
    (CycleDone /\ cycle.outcome \in {"exit0", "exit1"}) =>
        /\ ReportsSent = ExpectedDispatch("report", level_index)
        /\ ClearsSent \in {<<>>, ExpectedDispatch("clear", cycle.pre.level_index)}
        /\ Mon = RunOk(cycle.pre, Execute(cycle.outcome).status).m

C40_Witness ==
    /\ CycleDone
    /\ levels = CfgTwo
    /\ level_index = 1
    /\ DOMAIN reporters = {"slack", "splunk"}
    /\ LevelAt(1).reporters = <<"Slack", "pagerduty">>
    /\ ReportsSent = <<[op |-> "report", rep |-> "slack", tier |-> 1]>>

----------------------------------------------------------------------------
\* C39: a report or clear that is not accepted leaves the dedup key as it
\* was, an accepted report sets it to the dedup_key of the response, an
\* accepted clear to none; get_state gives Some exactly when a key is held.
C39_DedupKeyChangesOnSuccess ==
    /\ pd.op \in {"trigger", "resolve"} =>
           /\ pd.outcome # "accepted" => pd.dedup_key = pd.before
           /\ (pd.op = "trigger" /\ pd.outcome = "accepted")
                  => pd.dedup_key = pd.returned
           /\ (pd.op = "resolve" /\ pd.outcome = "accepted")
                  => pd.dedup_key = <<>>
    /\ pd.op = "get_state" =>
           /\ pd.held = pd.dedup_key
           /\ pd.state # <<>> <=> pd.dedup_key # <<>>
    /\ PdGetStateOf(pd.dedup_key) # <<>> <=> pd.dedup_key # <<>>

C39_Witness ==
    /\ pd.op = "resolve"
    /\ pd.outcome = "non202"
    /\ pd.before = <<<<97, 8364>>>>
    /\ pd.dedup_key = pd.before
    /\ pd.sent # <<>>

====
